---------------------------- MODULE Spec2Model ----------------------------
(***************************************************************************)
(* A model of koishi-plugin-best-jrrp: the expression synthesizer          *)
(* (ExpressionGenerator), the hash core and score engine (JrrpService /    *)
(* JrrpCalculator / FortuneCalc), the Random.org adapter and the jrrp      *)
(* command flow around the per-user score store.                           *)
(*                                                                         *)
(* Strings that the program builds out of pieces are modelled as           *)
(* sequences: an expression is the sequence of its tokens (each token a    *)
(* string, a number literal being the decimal text String(n) produces), a  *)
(* seed is the sequence of its character codes.                            *)
(***************************************************************************)
EXTENDS Integers, Sequences, FiniteSets, TLC

(***************************************************************************)
(* Bounds of the model.                                                    *)
(***************************************************************************)
\* frames the call stack may hold before the engine raises RangeError
MaxDepth == 2
\* frames the factorization split is given room for
MaxSplitDepth == 4
\* the most special messages and the most range messages of a MsgBuilder
MaxSpecialMessages == 2
MaxRangeMessages == 2
\* how far outside 0..100 an out-of-domain target is drawn
MaxOut == 2
\* the longest user id, in characters
MaxIdLen == 2
\* how far from 50 the rounded Box-Muller value z * 15 + 50 is drawn
MaxSpread == 55
\* how long, in milliseconds, a fetch is followed
MaxClock == 7000
\* the largest number literal the evaluator reads
MaxLiteral == 400

Min(a, b) == IF a < b THEN a ELSE b
Max(a, b) == IF a > b THEN a ELSE b

RECURSIVE Pow2(_)
Pow2(k) == IF k <= 0 THEN 1 ELSE 2 * Pow2(k - 1)

(***************************************************************************)
(* Number literals: String(n) and its inverse on the literals that can     *)
(* occur in an expression.                                                 *)
(***************************************************************************)
LiteralRange == (0 - MaxLiteral) .. MaxLiteral

NumStr(n) == ToString(n)

LiteralTexts == { NumStr(n) : n \in LiteralRange }

ParseNum == [ s \in LiteralTexts |-> CHOOSE n \in LiteralRange : NumStr(n) = s ]

(***************************************************************************)
(* Evaluation of a token sequence with JavaScript's operator precedence:   *)
(*   * / %   over   + -   over   << >>   over   &   over   ^   over   |    *)
(* all left associative, parentheses innermost.  A result is               *)
(* [ok, v, pos]: pos is the index of the first token not consumed.         *)
(***************************************************************************)
RECURSIVE BitAnd(_, _), BitOr(_, _), BitXor(_, _)
BitAnd(a, b) == IF a = 0 \/ b = 0 THEN 0
                ELSE 2 * BitAnd(a \div 2, b \div 2) + (IF a % 2 = 1 /\ b % 2 = 1 THEN 1 ELSE 0)
BitOr(a, b) == IF a = 0 THEN b ELSE IF b = 0 THEN a
               ELSE 2 * BitOr(a \div 2, b \div 2) + (IF a % 2 = 1 \/ b % 2 = 1 THEN 1 ELSE 0)
BitXor(a, b) == IF a = 0 THEN b ELSE IF b = 0 THEN a
                ELSE 2 * BitXor(a \div 2, b \div 2) + (IF a % 2 # b % 2 THEN 1 ELSE 0)

LevelOps(lvl) == CASE lvl = 1 -> {"*", "/", "%"}
                   [] lvl = 2 -> {"+", "-"}
                   [] lvl = 3 -> {"<<", ">>"}
                   [] lvl = 4 -> {"&"}
                   [] lvl = 5 -> {"^"}
                   [] OTHER   -> {"|"}

Bad == [ok |-> FALSE, v |-> 0, pos |-> 0]

\* one binary operation on integers; ok is FALSE where JavaScript would
\* leave the integers (an inexact quotient, a division by zero) or where
\* the bitwise operand is negative, which no synthesized expression has
ApplyOp(op, a, b) ==
  CASE op = "+"  -> [ok |-> TRUE, v |-> a + b]
    [] op = "-"  -> [ok |-> TRUE, v |-> a - b]
    [] op = "*"  -> [ok |-> TRUE, v |-> a * b]
    [] op = "/"  -> IF b # 0 /\ a >= 0 /\ b > 0 /\ a % b = 0
                      THEN [ok |-> TRUE, v |-> a \div b] ELSE [ok |-> FALSE, v |-> 0]
    [] op = "%"  -> IF b > 0 /\ a >= 0
                      THEN [ok |-> TRUE, v |-> a % b] ELSE [ok |-> FALSE, v |-> 0]
    [] op = "<<" -> IF a >= 0 /\ b >= 0 /\ b < 20
                      THEN [ok |-> TRUE, v |-> a * Pow2(b)] ELSE [ok |-> FALSE, v |-> 0]
    [] op = ">>" -> IF a >= 0 /\ b >= 0 /\ b < 20
                      THEN [ok |-> TRUE, v |-> a \div Pow2(b)] ELSE [ok |-> FALSE, v |-> 0]
    [] op = "&"  -> IF a >= 0 /\ b >= 0
                      THEN [ok |-> TRUE, v |-> BitAnd(a, b)] ELSE [ok |-> FALSE, v |-> 0]
    [] op = "^"  -> IF a >= 0 /\ b >= 0
                      THEN [ok |-> TRUE, v |-> BitXor(a, b)] ELSE [ok |-> FALSE, v |-> 0]
    [] op = "|"  -> IF a >= 0 /\ b >= 0
                      THEN [ok |-> TRUE, v |-> BitOr(a, b)] ELSE [ok |-> FALSE, v |-> 0]
    [] OTHER     -> [ok |-> FALSE, v |-> 0]

RECURSIVE ParseLevel(_, _, _), ParseTail(_, _, _, _)
ParseLevel(lvl, toks, i) ==
  IF lvl = 0
    THEN IF i > Len(toks) THEN Bad
         ELSE IF toks[i] = "("
           THEN LET r == ParseLevel(6, toks, i + 1)
                IN  IF r.ok /\ r.pos <= Len(toks) /\ toks[r.pos] = ")"
                      THEN [ok |-> TRUE, v |-> r.v, pos |-> r.pos + 1]
                      ELSE Bad
         ELSE IF toks[i] \in LiteralTexts
           THEN [ok |-> TRUE, v |-> ParseNum[toks[i]], pos |-> i + 1]
           ELSE Bad
    ELSE LET l == ParseLevel(lvl - 1, toks, i)
         IN  IF l.ok THEN ParseTail(lvl, toks, l.v, l.pos) ELSE Bad

ParseTail(lvl, toks, acc, i) ==
  IF i <= Len(toks) /\ toks[i] \in LevelOps(lvl)
    THEN LET r == ParseLevel(lvl - 1, toks, i + 1)
             x == ApplyOp(toks[i], acc, r.v)
         IN  IF r.ok /\ x.ok THEN ParseTail(lvl, toks, x.v, r.pos) ELSE Bad
    ELSE [ok |-> TRUE, v |-> acc, pos |-> i]

\* the value of a whole expression, or [ok |-> FALSE] when it is not one
Evaluate(toks) ==
  LET r == ParseLevel(6, toks, 1)
  IN  IF r.ok /\ r.pos = Len(toks) + 1 THEN [ok |-> TRUE, v |-> r.v]
                                       ELSE [ok |-> FALSE, v |-> 0]


(***************************************************************************)
(* ExpressionGenerator (src/src/JrrpCalculator.ts).                        *)
(*                                                                         *)
(* digitExpressions is the instance's Map<number, string[]>, a function    *)
(* from the keys present to the array stored there.  A call of one of the  *)
(* three generators runs as a stack of frames, one per active invocation:  *)
(* pre is the text built so far, todo the rest of the template literal     *)
(* being evaluated left to right (literal pieces, and recursive calls not  *)
(* yet made).                                                              *)
(***************************************************************************)
VARIABLES digitExpressions, expressionsInitialized,
          stack, call, status, result

\* the history of the cache: origin[n][i] is the baseNumber of the call
\* that stored digitExpressions[n][i], served the set of these for the
\* cache entries the running call has read
VARIABLES origin, served

synthVars == <<digitExpressions, expressionsInitialized,
               stack, call, status, result, origin, served>>

\* the score engine: the arguments of calculateScoreWithAlgorithm and the
\* score it returned (NoScore before the call)
VARIABLES query, score

scoreVars == <<query, score>>

\* one call of a Random.org fetch function: which of the three functions
\* runs (variant), where it is (fpc), its abort timer, the time since the
\* call in milliseconds, the requests sent, whether the request was
\* aborted, and what the call returned
VARIABLES variant, fpc, timer, clock, requests, aborted, fetched

fetchVars == <<variant, fpc, timer, clock, requests, aborted, fetched>>

\* the plugin around its score store: the deployment (config), the day it
\* is (an index into DaySeq), the user records of JrrpService (userData),
\* the rows of the jrrp table of FortuneStore (jrrpTable), what the last
\* jrrp command answered (reply) and, for each user, the score recorded
\* for them today, if any (recorded)
VARIABLES config, today, userData, jrrpTable, reply, recorded

serviceVars == <<config, today, userData, jrrpTable, reply, recorded>>

\* one jrrp or jrrp.date command of the JrrpService version under any
\* configured algorithm: the deployment and the user (setup) and what
\* formatJrrpMessage worked out (shown)
VARIABLES setup, shown

commandVars == <<setup, shown>>

\* one run of a hash function: which function runs on which string and
\* how many characters it has consumed (hrun), the accumulator of hashCode
\* (acc32, two 16-bit halves) and of getHash (acc64, 16-bit limbs, the
\* lowest first), the value returned (hout), and one evaluation of
\* calculateJrrpWithCode (codeCalc)
VARIABLES hrun, acc32, acc64, hout, codeCalc

hashVars == <<hrun, acc32, acc64, hout, codeCalc>>

\* the identification codes kept per user (profiles: the identification_code
\* of JrrpService.userData, the code of CodeStore's profile file), the last
\* bind or unbind with what it returned (linked), and the code the score
\* engine was last called with (engine)
VARIABLES profiles, linked, engine

codeVars == <<profiles, linked, engine>>

\* one configuration of range messages (ranges, its keys in the order of
\* Object.keys), what validateRangeMessages did with it (verdict), and the
\* last lookup of getScoreMessage (matched)
VARIABLES ranges, verdict, matched

rangeVars == <<ranges, verdict, matched>>

\* one call of formatScore: its arguments and what it returned
VARIABLES display

displayVars == <<display>>

\* the ranking of JrrpService: the entries of userData in key order with
\* the score and the timestamp recordUserScore wrote (board), the clock in
\* hours (now), the time zone of the host as hours ahead of UTC (zone), and
\* what getTodayRanking and getUserRank last answered (asked)
VARIABLES board, now, zone, asked

boardVars == <<board, now, zone, asked>>

\* two evaluations of one score: the arguments (trial), what the
\* arithmetic of the runtime gives for them where the model does not
\* compute it (libm: Math.round(z * 15 + 50) of the Gaussian case, and
\* mergedHash % 1001 of the identification code), and the evaluations
\* made so far, each with the clock and the random draw of its moment
\* (runs)
VARIABLES trial, libm, runs

trialVars == <<trial, libm, runs>>

\* the hidden theme: per user the bound code, the perfect_score / unlocked
\* flag and the day of the recorded score, in JrrpService or in CodeStore
\* (holder), the day (themeDay), the users the unlock message was shown
\* to (unlockSeen) and the last answer to a score command (said)
VARIABLES holder, themeDay, unlockSeen, said

themeVars == <<holder, themeDay, unlockSeen, said>>

\* one score command of a user with a bound code: the command with the
\* score of its date and the user's answer to a prompt (asking), the
\* messages sent in their order (sent) and the score recorded (kept)
VARIABLES asking, sent, kept

zeroVars == <<asking, sent, kept>>

\* MsgBuilder: the configuration it was constructed with and its caches,
\* and the last getMessage call with the text it returned
VARIABLES builder, picked

messageVars == <<builder, picked>>

\* FortuneStore: the jrrp table, a set of records keyed by (userId, date),
\* and the clearData call under way with its query, its position and what
\* it returned
VARIABLES entries, clearing

clearVars == <<entries, clearing>>

\* two jrrp commands of one user on one day in remote mode: what the score
\* store holds for the user today and the requests sent to Random.org
\* (overlap), and each command's position, score and displayed score (cmds)
VARIABLES overlap, cmds

overlapVars == <<overlap, cmds>>

vars == <<synthVars, scoreVars, fetchVars, serviceVars, commandVars,
          hashVars, codeVars, rangeVars, displayVars, boardVars, trialVars,
          themeVars, zeroVars, messageVars, clearVars, overlapVars>>

\* what the operations of one component leave alone
SynthOnly ==
  UNCHANGED <<scoreVars, fetchVars, serviceVars, commandVars, hashVars,
              codeVars, rangeVars, displayVars, boardVars, trialVars,
              themeVars, zeroVars, messageVars, clearVars, overlapVars>>
ScoreOnly ==
  UNCHANGED <<synthVars, fetchVars, serviceVars, commandVars, hashVars,
              codeVars, rangeVars, displayVars, boardVars, trialVars,
              themeVars, zeroVars, messageVars, clearVars, overlapVars>>
FetchOnly ==
  UNCHANGED <<synthVars, scoreVars, serviceVars, commandVars, hashVars,
              codeVars, rangeVars, displayVars, boardVars, trialVars,
              themeVars, zeroVars, messageVars, clearVars, overlapVars>>
ServiceOnly ==
  UNCHANGED <<synthVars, scoreVars, fetchVars, commandVars, hashVars,
              codeVars, rangeVars, displayVars, boardVars, trialVars,
              themeVars, zeroVars, messageVars, clearVars, overlapVars>>
CommandOnly ==
  UNCHANGED <<synthVars, scoreVars, fetchVars, serviceVars, hashVars,
              codeVars, rangeVars, displayVars, boardVars, trialVars,
              themeVars, zeroVars, messageVars, clearVars, overlapVars>>
HashOnly ==
  UNCHANGED <<synthVars, scoreVars, fetchVars, serviceVars, commandVars,
              codeVars, rangeVars, displayVars, boardVars, trialVars,
              themeVars, zeroVars, messageVars, clearVars, overlapVars>>
CodeOnly ==
  UNCHANGED <<synthVars, scoreVars, fetchVars, serviceVars, commandVars,
              hashVars, rangeVars, displayVars, boardVars, trialVars,
              themeVars, zeroVars, messageVars, clearVars, overlapVars>>
RangeOnly ==
  UNCHANGED <<synthVars, scoreVars, fetchVars, serviceVars, commandVars,
              hashVars, codeVars, displayVars, boardVars, trialVars,
              themeVars, zeroVars, messageVars, clearVars, overlapVars>>
DisplayOnly ==
  UNCHANGED <<synthVars, scoreVars, fetchVars, serviceVars, commandVars,
              hashVars, codeVars, rangeVars, boardVars, trialVars, themeVars,
              zeroVars, messageVars, clearVars, overlapVars>>
BoardOnly ==
  UNCHANGED <<synthVars, scoreVars, fetchVars, serviceVars, commandVars,
              hashVars, codeVars, rangeVars, displayVars, trialVars,
              themeVars, zeroVars, messageVars, clearVars, overlapVars>>
TrialOnly ==
  UNCHANGED <<synthVars, scoreVars, fetchVars, serviceVars, commandVars,
              hashVars, codeVars, rangeVars, displayVars, boardVars,
              themeVars, zeroVars, messageVars, clearVars, overlapVars>>
ThemeOnly ==
  UNCHANGED <<synthVars, scoreVars, fetchVars, serviceVars, commandVars,
              hashVars, codeVars, rangeVars, displayVars, boardVars,
              trialVars, zeroVars, messageVars, clearVars, overlapVars>>
ZeroOnly ==
  UNCHANGED <<synthVars, scoreVars, fetchVars, serviceVars, commandVars,
              hashVars, codeVars, rangeVars, displayVars, boardVars,
              trialVars, themeVars, messageVars, clearVars, overlapVars>>
MessageOnly ==
  UNCHANGED <<synthVars, scoreVars, fetchVars, serviceVars, commandVars,
              hashVars, codeVars, rangeVars, displayVars, boardVars,
              trialVars, themeVars, zeroVars, clearVars, overlapVars>>
ClearOnly ==
  UNCHANGED <<synthVars, scoreVars, fetchVars, serviceVars, commandVars,
              hashVars, codeVars, rangeVars, displayVars, boardVars,
              trialVars, themeVars, zeroVars, messageVars, overlapVars>>
OverlapOnly ==
  UNCHANGED <<synthVars, scoreVars, fetchVars, serviceVars, commandVars,
              hashVars, codeVars, rangeVars, displayVars, boardVars,
              trialVars, themeVars, zeroVars, messageVars, clearVars>>

\* Infinity and NaN, which floor(target / 0) and target % 0 produce
NonFinite == 0 - (MaxLiteral + 1)

IsFinite(n) == n # NonFinite

Put(m, k, v) == [x \in (DOMAIN m) \cup {k} |-> IF x = k THEN v ELSE m[x]]

NoCache == [x \in {} |-> <<>>]

Lit(toks) == [call |-> "", arg |-> 0, lit |-> toks]
Rec(fn, n) == [call |-> fn, arg |-> n, lit |-> <<>>]

\* the table getDigitExpr fills in on its first call of an uninitialised
\* instance, for base digit b
DigitTable(b) ==
  LET B == NumStr(b)
      special ==
        [i \in 1..9 |->
          CASE i = 1 -> << <<"(", B, "/", B, ")">>, <<"(", B, "%", "(", B, "+", B, ")", ")">> >>
            [] i = 2 -> << <<"(", B, ">>", "(", B, "/", B, ")">>, <<"(", B, "&", B, ")">> >>
            [] i = 3 -> << <<"(", B, "/", "(", B, "/", B, "<<", B, "/", B, ")", ")">>,
                           <<"(", B, "-", "(", B, "/", B, ")", ")">> >>
            [] i = 4 -> << <<"(", B, "&", "(", B, "|", "(", B, "/", B, ")", ")", ")">>,
                           <<"(", B, "-", "(", B, "/", B, ")", "+", B, ")">> >>
            [] i = 5 -> << <<"(", B, "-", B, "/", B, ")">>,
                           <<"(", B, "+", "(", B, "/", B, "<<", B, ")", ")">> >>
            [] i = 6 -> << <<"(", B, "+", "(", B, "/", B, ">>", B, "/", B, ")", ")">>,
                           <<"(", B, "+", "(", B, "&", B, ")", ")">> >>
            [] i = 7 -> << <<"(", B, "+", B, "/", B, ")">>,
                           <<"(", B, "+", B, "-", "(", B, "/", B, ")", ")">> >>
            [] i = 8 -> << <<"(", B, "+", B, "/", B, "<<", B, "/", B, ")">>,
                           <<"(", B, "|", "(", B, "&", B, ")", ")">> >>
            [] OTHER -> << <<"(", B, "|", "(", B, ">>", B, "/", B, ")", ")">>,
                           <<"(", B, "+", B, "-", B, "/", B, ")">> >>]
  IN  [n \in {b} \cup (0..10) |->
        IF n = 0 THEN << <<"(", B, "-", B, ")">>, <<"(", B, "^", B, ")">> >>
        ELSE IF n = 10
          THEN << <<"(", "(", B, "<<", B, "/", B, ")", "+", "(", B, ">>", B, "/", B, ")", ")">>,
                  <<"(", B, "+", B, ")">> >>
        ELSE IF n = b THEN << <<B>> >>
        ELSE special[n]]

Entries(m, n) == { m[n][i] : i \in 1..Len(m[n]) }

\* the map after the initialisation block at the head of getDigitExpr
AfterInit(baseNumber) ==
  IF expressionsInitialized THEN digitExpressions
  ELSE LET t == DigitTable(baseNumber)
       IN  [n \in (DOMAIN digitExpressions) \cup (DOMAIN t) |->
             IF n \in DOMAIN t THEN t[n] ELSE digitExpressions[n]]

\* getDigitExpr(n, baseNumber): the strings the call may return (one entry
\* of the slot picked at random, or String(n) when there is no slot)
getDigitExpr(n, baseNumber) ==
  LET m == AfterInit(baseNumber)
  IN  IF n \in DOMAIN m THEN Entries(m, n)
      ELSE { << IF IsFinite(n) THEN NumStr(n) ELSE "Infinity" >> }

\* What entering a generator can do: return at once (ret, with the text
\* val), or go on to evaluate the template todo.  store says whether the
\* text is put into the cache before it is returned.
Ret(v, st) == [ret |-> TRUE, val |-> v, todo |-> <<>>, store |-> st, hit |-> FALSE]
Plan(parts, st) == [ret |-> FALSE, val |-> <<>>, todo |-> parts, store |-> st, hit |-> FALSE]
\* an entry of the cache slot is returned as it is
Hit(v) == [ret |-> TRUE, val |-> v, todo |-> <<>>, store |-> FALSE, hit |-> TRUE]

Cached(target) ==
  IF target \in DOMAIN digitExpressions THEN Entries(digitExpressions, target) ELSE {}

generateDecimalExpression(target, baseNumber) ==
  LET D(n) == getDigitExpr(n, baseNumber)
      tens == target \div 10
      ones == target % 10
      nearestTen == tens * 10
      nextTen == (tens + 1) * 10
      byStrategy(strategy) ==
        IF strategy = 0 /\ target <= 20
          THEN { Ret(<<"(">> \o x \o <<"+">> \o y \o <<")">>, TRUE) : x \in D(10), y \in D(ones) }
        ELSE IF strategy = 1 /\ ones = 0
          THEN { Ret(<<"(">> \o x \o <<"*">> \o y \o <<")">>, TRUE) : x \in D(tens), y \in D(10) }
        ELSE IF strategy = 2 /\ target <= 50
          THEN { Ret(<<"(", "(">> \o x \o <<"*">> \o y \o <<")", "+">> \o z \o <<")">>, TRUE) :
                   x \in D(tens), y \in D(10), z \in D(ones) }
        ELSE \* Math.random() > 0.5 && ones <= 5, or not
             (IF ones <= 5
                THEN { Plan(<< Lit(<<"(">>), Rec("decimal", nearestTen),
                               Lit(<<"+">> \o x \o <<")">>) >>, TRUE) : x \in D(ones) }
                ELSE {})
             \cup { Plan(<< Lit(<<"(">>), Rec("decimal", nextTen),
                            Lit(<<"-">> \o x \o <<")">>) >>, TRUE) : x \in D(10 - ones) }
  IN  IF target <= 10 THEN { Ret(x, FALSE) : x \in D(target) }
      ELSE { Hit(x) : x \in Cached(target) }   \* a slot, and Math.random() > 0.3
           \cup (IF target = 100
                   THEN { Ret(<<"(">> \o x \o <<"*">> \o y \o <<")">>, TRUE) : x \in D(10), y \in D(10) }
                   ELSE UNION { byStrategy(strategy) : strategy \in 0..2 })

\* the square root rounded up instead of down
CeilSqrt(n) == CHOOSE r \in 0..n : r * r >= n /\ (r = 0 \/ (r - 1) * (r - 1) < n)

\* Math.floor(Math.sqrt(n))
Isqrt(n) == CHOOSE r \in 0..n : r * r <= n /\ (r + 1) * (r + 1) > n

\* the closure decompose of generatePrimeFactorsExpression
decompose(num, baseNumber) ==
  LET D(n) == getDigitExpr(n, baseNumber)
      factors == { i \in 2..Min(9, Isqrt(num)) : num % i = 0 }
      base == (num \div 10) * 10
      diff == num - base
  IN  IF num <= 10 THEN { Ret(x, FALSE) : x \in D(num) }
      ELSE IF num \in DOMAIN digitExpressions THEN { Hit(x) : x \in Cached(num) }
      ELSE IF factors # {}
        THEN LET i == CHOOSE f \in factors : \A g \in factors : g <= f
                 quotient == num \div i
             IN  IF quotient <= 10
                   THEN { Ret(<<"(">> \o x \o <<"*">> \o y \o <<")">>, FALSE) : x \in D(i), y \in D(quotient) }
                   ELSE { Plan(<< Lit(<<"(">> \o x \o <<"*">>), Rec("decompose", quotient),
                                  Lit(<<")">>) >>, FALSE) : x \in D(i) }
      ELSE IF diff = 0
        THEN { Plan(<< Rec("decompose", num \div 10), Lit(<<"*">> \o x) >>, FALSE) : x \in D(10) }
      ELSE IF diff > 0
        THEN { Plan(<< Lit(<<"(">>), Rec("decompose", base),
                       Lit(<<"+">> \o x \o <<")">>) >>, FALSE) : x \in D(diff) }
        ELSE { Plan(<< Lit(<<"(">>), Rec("decompose", base),
                       Lit(<<"-">> \o x \o <<")">>) >>, FALSE) : x \in D(0 - diff) }

generatePrimeFactorsExpression(target, baseNumber) ==
  LET D(n) == getDigitExpr(n, baseNumber)
  IN  IF target <= 10 THEN { Ret(x, FALSE) : x \in D(target) }
      ELSE IF target \in DOMAIN digitExpressions THEN { Hit(x) : x \in Cached(target) }
      ELSE IF target = 100
        THEN { Ret(<<"(">> \o x \o <<"*">> \o y \o <<")">>, FALSE) : x \in D(10), y \in D(10) }
      ELSE { Plan(<< Rec("decompose", target) >>, FALSE) }

Log2(n) == CHOOSE k \in 0..30 : Pow2(k) <= n /\ n < Pow2(k + 1)

generateMixedOperationsExpression(target, baseNumber) ==
  LET D(n) == getDigitExpr(n, baseNumber)
      \* floor(x / baseNumber); Infinity when baseNumber is 0
      Quot(x) == IF baseNumber = 0 THEN NonFinite ELSE x \div baseNumber
      strategy1 ==
        LET base == (target \div 10) * 10
            diff == target - base
        IN  IF diff >= 0
              THEN { Plan(<< Lit(<<"(">>), Rec("mixed", base),
                             Lit(<<"+">> \o x \o <<")">>) >>, TRUE) : x \in D(diff) }
              ELSE { Plan(<< Lit(<<"(">>), Rec("mixed", base),
                             Lit(<<"-">> \o x \o <<")">>) >>, TRUE) : x \in D(0 - diff) }
      strategy2(b) ==
        IF baseNumber = 0
          \* remainder is NaN: neither === 0 nor <= baseNumber / 2
          THEN { Plan(<< Lit(<<"(", "(">> \o b \o <<"*">>), Rec("mixed", NonFinite),
                         Lit(<<")", "-", "NaN", ")">>) >>, TRUE) }
        ELSE LET quotient == target \div baseNumber
                 remainder == target % baseNumber
             IN  IF remainder = 0
                   THEN { Plan(<< Lit(<<"(">> \o b \o <<"*">>), Rec("mixed", quotient),
                                  Lit(<<")">>) >>, TRUE) }
                 ELSE IF 2 * remainder <= baseNumber
                   THEN { Plan(<< Lit(<<"(", "(">> \o b \o <<"*">>), Rec("mixed", quotient),
                                  Lit(<<")", "+">> \o x \o <<")">>) >>, TRUE) : x \in D(remainder) }
                   ELSE { Plan(<< Lit(<<"(", "(">> \o b \o <<"*">>), Rec("mixed", quotient + 1),
                                  Lit(<<")", "-">> \o x \o <<")">>) >>, TRUE) :
                            x \in D(baseNumber - remainder) }
      strategy3(b) ==
        LET maxShift == Log2(target)
            base == Pow2(maxShift)
            remainder == target - base
        IN  IF remainder = 0
              THEN { Ret(<<"(">> \o b \o <<"<<">> \o x \o <<")">>, TRUE) : x \in D(maxShift) }
            ELSE IF remainder < 0
              THEN { Plan(<< Lit(<<"(", "(">> \o b \o <<"<<">> \o x \o <<")", "-">>),
                             Rec("mixed", 0 - remainder), Lit(<<")">>) >>, TRUE) : x \in D(maxShift) }
              ELSE { Plan(<< Lit(<<"(", "(">> \o b \o <<"<<">> \o x \o <<")", "+">>),
                             Rec("mixed", remainder), Lit(<<")">>) >>, TRUE) : x \in D(maxShift) }
      strategy4 ==
        LET simple == { i \in 1..Min(10, target) : target % i = 0 /\ target \div i <= 10 }
            mid == target \div 2
        IN  IF simple # {}
              THEN LET i == CHOOSE f \in simple : \A g \in simple : f <= g
                   IN  { Ret(<<"(">> \o x \o <<"*">> \o y \o <<")">>, TRUE) :
                           x \in D(i), y \in D(target \div i) }
              ELSE { Plan(<< Lit(<<"(">>), Rec("mixed", mid), Lit(<<"+">>),
                             Rec("mixed", target - mid), Lit(<<")">>) >>, TRUE) }
  IN  IF ~IsFinite(target)
        \* Infinity and NaN pass every test and divide evenly by nothing:
        \* each of the four strategies calls the generator again on a
        \* non-finite number
        THEN { Plan(<< Lit(<<"(">>), Rec("mixed", NonFinite), Lit(<<")">>) >>, TRUE) }
      ELSE IF target <= 10 THEN { Ret(x, FALSE) : x \in D(target) }
      ELSE { Hit(x) : x \in Cached(target) }   \* a slot, and Math.random() > 0.3
           \cup UNION { IF target = 0
                          THEN { Ret(<<"(">> \o b \o <<"-">> \o b \o <<")">>, TRUE) }
                        ELSE IF target = 100
                          THEN { Plan(<< Lit(<<"(">> \o b \o <<"*">>), Rec("mixed", Quot(100)),
                                         Lit(<<")">>) >>, TRUE) }
                          ELSE strategy1 \cup strategy2(b) \cup strategy3(b) \cup strategy4
                        : b \in D(baseNumber) }

Outcomes(fn, target, baseNumber) ==
  CASE fn = "decimal"   -> generateDecimalExpression(target, baseNumber)
    [] fn = "prime"     -> generatePrimeFactorsExpression(target, baseNumber)
    [] fn = "decompose" -> decompose(target, baseNumber)
    [] OTHER            -> generateMixedOperationsExpression(target, baseNumber)

(***************************************************************************)
(* The call stack.  A frame is one activation of a generator: pre is the   *)
(* part of its template literal already evaluated, todo the rest of it     *)
(* (texts and calls, left to right), hadSlot whether the cache had a slot  *)
(* for the target when the activation read it, nret how many of its calls  *)
(* have returned.  The bottom frame stands for the caller.                 *)
(***************************************************************************)
Frame(fn, target, todo, st) ==
  [fn |-> fn, target |-> target, pre |-> <<>>, todo |-> todo, store |-> st,
   hadSlot |-> target \in DOMAIN digitExpressions, nret |-> 0]

\* evaluate the texts of the template up to its next call
RECURSIVE Absorb(_)
Absorb(f) ==
  IF f.todo # <<>> /\ Head(f.todo).call = ""
    THEN Absorb([f EXCEPT !.pre = f.pre \o Head(f.todo).lit, !.todo = Tail(f.todo)])
    ELSE f

\* Stored without the test cached.length < 3
UncappedStored(m, target, expr, hadSlot) ==
  IF ~hadSlot \/ target \notin DOMAIN m THEN Put(m, target, <<expr>>)
  ELSE Put(m, target, Append(m[target], expr))

\* "if (!cached) set(target, [expr]) else if (cached.length < 3) push(expr)"
\* where cached is what the activation read on entry
Stored(m, target, expr, hadSlot) ==
  IF ~hadSlot \/ target \notin DOMAIN m THEN Put(m, target, <<expr>>)
  ELSE IF Len(m[target]) < 3 THEN Put(m, target, Append(m[target], expr))
  ELSE m

\* the bases under which the entries of slot n that read x were stored
HitOrigins(n, x) ==
  { origin[n][i] : i \in { j \in 1..Len(digitExpressions[n]) : digitExpressions[n][j] = x } }

\* the value v of the call at the head of frame f's template is in
Deliver(f, v) ==
  Absorb([f EXCEPT !.pre = f.pre \o v, !.todo = Tail(f.todo), !.nret = f.nret + 1])

Top == stack[Len(stack)]
Below == SubSeq(stack, 1, Len(stack) - 1)
AtCall == stack # <<>> /\ Top.todo # <<>>

Targets == 0..100
Bases == 1..9
Generators == {"decimal", "prime", "mixed"}
\* a fresh instance, on which no call has been made yet
CanCall == status = "idle"

\* a caller invokes one of the three public generators
Invoke(fn, target, baseNumber) ==
  /\ SynthOnly
  /\ CanCall
  /\ call' = [fn |-> fn, target |-> target, base |-> baseNumber, via |-> "direct"]
  /\ stack' = << Frame("caller", target, << Rec(fn, target) >>, FALSE) >>
  /\ status' = "running"
  /\ result' = <<>>
  /\ served' = {}
  /\ UNCHANGED <<digitExpressions, expressionsInitialized, origin>>

\* the call at the head of the top frame's template is entered, the stack
\* holding at most limit frames before it
EnterWithin(limit) ==
  /\ SynthOnly
  /\ status = "running"
  /\ AtCall
  /\ \E o \in Outcomes(Head(Top.todo).call, Head(Top.todo).arg, call.base) :
       LET fn == Head(Top.todo).call
           n == Head(Top.todo).arg
       IN  IF o.ret
             THEN /\ stack' = Below \o << Deliver(Top, o.val) >>
                  /\ digitExpressions' =
                       IF o.store
                         THEN Stored(digitExpressions, n, o.val, n \in DOMAIN digitExpressions)
                         ELSE digitExpressions
                  /\ origin' =
                       IF o.store
                         THEN Stored(origin, n, call.base, n \in DOMAIN digitExpressions)
                         ELSE origin
                  /\ served' \in IF o.hit THEN { served \cup {b} : b \in HitOrigins(n, o.val) }
                                          ELSE { served }
                  /\ UNCHANGED status
             ELSE /\ Len(stack) <= limit
                  /\ stack' = Append(stack, Absorb(Frame(fn, n, o.todo, o.store)))
                  /\ UNCHANGED <<digitExpressions, status, origin, served>>
  /\ UNCHANGED <<expressionsInitialized, call, result>>

Enter == EnterWithin(MaxDepth)

\* the top activation has evaluated its template: store, return
Return ==
  /\ SynthOnly
  /\ status = "running"
  /\ Len(stack) > 1
  /\ Top.todo = <<>>
  /\ digitExpressions' =
       IF Top.store THEN Stored(digitExpressions, Top.target, Top.pre, Top.hadSlot)
       ELSE digitExpressions
  /\ origin' =
       IF Top.store THEN Stored(origin, Top.target, call.base, Top.hadSlot)
       ELSE origin
  /\ UNCHANGED served
  /\ stack' = SubSeq(stack, 1, Len(stack) - 2) \o << Deliver(stack[Len(stack) - 1], Top.pre) >>
  /\ UNCHANGED <<expressionsInitialized, call, status, result>>

\* Overflow without the try/catch of formatScore: the RangeError always
\* reaches the caller
OverflowUncaught ==
  /\ SynthOnly
  /\ status = "running"
  /\ AtCall
  /\ Len(stack) > MaxDepth
  /\ \E o \in Outcomes(Head(Top.todo).call, Head(Top.todo).arg, call.base) : ~o.ret
  /\ stack' = <<>>
  /\ status' = "thrown"
  /\ result' = <<>>
  /\ UNCHANGED <<digitExpressions, expressionsInitialized, call, origin, served>>

\* the call stack is exhausted: RangeError.  formatScore catches it and
\* returns score.toString(); a direct caller gets the exception
Overflow ==
  /\ SynthOnly
  /\ status = "running"
  /\ AtCall
  /\ Len(stack) > MaxDepth
  /\ \E o \in Outcomes(Head(Top.todo).call, Head(Top.todo).arg, call.base) : ~o.ret
  /\ stack' = <<>>
  /\ IF call.via = "formatScore"
       THEN status' = "returned" /\ result' = << NumStr(call.target) >>
       ELSE status' = "thrown" /\ result' = <<>>
  /\ UNCHANGED <<digitExpressions, expressionsInitialized, call, origin, served>>

\* the generator the caller invoked has returned
Finish ==
  /\ SynthOnly
  /\ status = "running"
  /\ Len(stack) = 1
  /\ Top.todo = <<>>
  /\ status' = "returned"
  /\ result' = Top.pre
  /\ stack' = <<>>
  /\ UNCHANGED <<digitExpressions, expressionsInitialized, call, origin, served>>

\* Number.prototype.toString(2), one token per character
RECURSIVE Binary(_)
Binary(n) ==
  IF n < 0 THEN <<"-">> \o Binary(0 - n)
  ELSE IF n < 2 THEN << NumStr(n) >>
  ELSE Binary(n \div 2) \o << NumStr(n % 2) >>

\* the days formatScore is asked about, as <<month, day>>
Days == { <<4, 1>>, <<4, 2>> }

\* FoolConfig; date and baseNumber are optional (<<>> when absent)
FoolConfigs(bases) ==
  [type : {"disabled", "enabled"},
   date : {<<>>} \cup { <<d>> : d \in Days },
   displayType : {"binary", "expression"},
   baseNumber : {<<>>} \cup { <<b>> : b \in bases }]

isValidFoolDate(date, foolConfig) ==
  foolConfig.date = <<>> \/ foolConfig.date[1] = date

\* formatScore(score, date, foolConfig); fn is the generator the draw
\* "rand" selects in expression mode
FormatScore(sc, date, foolConfig, fn) ==
  /\ SynthOnly
  /\ CanCall
  /\ IF foolConfig.type # "enabled" \/ ~isValidFoolDate(date, foolConfig)
       THEN /\ call' = [fn |-> "none", target |-> sc, base |-> 6, via |-> "formatScore"]
            /\ status' = "returned"
            /\ result' = << NumStr(sc) >>
            /\ stack' = <<>>
            /\ served' = {}
            /\ UNCHANGED <<digitExpressions, expressionsInitialized, origin>>
       ELSE /\ digitExpressions' = NoCache
            /\ origin' = NoCache
            /\ served' = {}
            /\ expressionsInitialized' = TRUE
            /\ IF foolConfig.displayType = "binary"
                 THEN /\ call' = [fn |-> "none", target |-> sc, base |-> 6,
                                  via |-> "formatScore"]
                      /\ status' = "returned"
                      /\ result' = Binary(sc)
                      /\ stack' = <<>>
                 ELSE LET baseNumber == IF foolConfig.baseNumber = <<>> THEN 6
                                        ELSE foolConfig.baseNumber[1]
                      IN  /\ call' = [fn |-> fn, target |-> sc, base |-> baseNumber,
                                      via |-> "formatScore"]
                          /\ status' = "running"
                          /\ result' = <<>>
                          /\ stack' = << [fn |-> "caller", target |-> sc, pre |-> <<>>,
                                          todo |-> << Rec(fn, sc) >>, store |-> FALSE,
                                          hadSlot |-> FALSE, nret |-> 0] >>

(***************************************************************************)
(* Hash core and score engine (JrrpService.hashCode,                       *)
(* JrrpCalculator.calculateScoreWithAlgorithm).                            *)
(*                                                                         *)
(* A string is the sequence of its character codes.  An unsigned 32-bit    *)
(* number is kept as two 16-bit halves [hi, lo], so that the wraparound of *)
(* the hash is computed exactly.                                           *)
(***************************************************************************)
RECURSIVE DigitCodes(_, _)
\* the decimal text of n, padded with zeros to width w
DigitCodes(n, w) ==
  IF w <= 1 /\ n < 10 THEN << 48 + n >>
  ELSE DigitCodes(n \div 10, w - 1) \o << 48 + (n % 10) >>

\* Date.toLocaleDateString('en-CA'): yyyy-mm-dd
DateText(date) ==
  DigitCodes(date.year, 4) \o <<45>> \o DigitCodes(date.month, 2) \o <<45>>
    \o DigitCodes(date.day, 2)

\* `${userId}-${date}`
UserDateSeed(userId, date) == userId \o <<45>> \o DateText(date)

\* hash << 5: the low 32 bits of hash * 32 read as a signed 32-bit number
\* (hi is the signed upper half)
ShiftLeft5(h) ==
  LET l == h.lo * 32
      u == (h.hi * 32 + l \div 65536) % 65536
  IN  [lo |-> l % 65536, hi |-> IF u >= 32768 THEN u - 65536 ELSE u]

\* ((hash << 5) + hash) + c, a number that may lie outside 32 bits: hi is
\* the number above the low 16 bits, not reduced
HashSum(h, c) ==
  LET s == ShiftLeft5(h)
      l == s.lo + h.lo + c
  IN  [lo |-> l % 65536, hi |-> s.hi + h.hi + l \div 65536]

\* x >>> 0
ToUint32(x) == [lo |-> x.lo, hi |-> x.hi % 65536]

\* one round of hashCode without the line hash = hash >>> 0
HashStepUnwrapped(h, c) == HashSum(h, c)

\* one round of hashCode:
\*   hash = ((hash << 5) + hash) + str.charCodeAt(i); hash = hash >>> 0
HashStep(h, c) == ToUint32(HashSum(h, c))

\* the loop of hashCode from character i on; each round's hash is a value
\* before the next round starts
RECURSIVE HashFold(_, _, _)
HashFold(h, str, i) ==
  IF i > Len(str) THEN h
  ELSE CHOOSE r \in { HashFold(x, str, i + 1) : x \in { HashStep(h, str[i]) } } : TRUE

hashCode(str) == HashFold([hi |-> 0, lo |-> 5381], str, 1)

\* h % m for an unsigned 32-bit h and m < 2^23
Mod32(h, m) == (((h.hi * 256) % m) * 256 + h.lo) % m

\* case BASIC: Math.abs(hashCode(seed)) % 101; the hash is unsigned
BasicScore(userDateSeed) == Mod32(hashCode(userDateSeed), 101)

\* case LINEAR: Math.floor(((lcgSeed * 9301 + 49297) % 233280) / 233280 * 101)
\* (9301 = 93 * 100 + 1 keeps the products small)
LinearScore(userDateSeed) ==
  LET r == Mod32(hashCode(userDateSeed), 233280)
      x == (((r * 93) % 233280) * 100 + r + 49297) % 233280
  IN  (x * 101) \div 233280

\* case GAUSSIAN: Math.min(100, Math.max(0, Math.round(z * 15 + 50))).
\* z comes out of Math.sin, Math.log and Math.cos of the hash; u1 lies in
\* [1/14, 1], so z is a finite real.  rounded is Math.round(z * 15 + 50).
GaussianScore(rounded) == Min(100, Max(0, rounded))

\* the end of calculateJrrpWithCode without the test randomValue >= 970
UncappedCodeScore(randomValue) == (2 * randomValue * 99 + 969) \div (2 * 969)

\* the end of calculateJrrpWithCode with the test randomValue > 970
StrictThresholdCodeScore(randomValue) ==
  IF randomValue > 970 THEN 100 ELSE (2 * randomValue * 99 + 969) \div (2 * 969)

\* the end of calculateJrrpWithCode:
\*   randomValue >= 970 ? 100 : Math.round((randomValue / 969.0) * 99.0)
\* where randomValue = Math.round(normalizedHash) % 1001 is the remainder of
\* a non-negative floating-point integer
calculateJrrpWithCode(randomValue) ==
  IF randomValue >= 970 THEN 100 ELSE (2 * randomValue * 99 + 969) \div (2 * 969)

NoScore == 0 - 1
Algorithms == {"basic", "linear", "gaussian", "random_org"}
\* two consecutive days
DaySeq == << [year |-> 2025, month |-> 3, day |-> 31],
             [year |-> 2025, month |-> 4, day |-> 1] >>
Dates == { DaySeq[i] : i \in 1..Len(DaySeq) }
\* user ids: the digit strings over "1" and "2" of up to MaxIdLen characters
RECURSIVE IdsOfLen(_)
IdsOfLen(n) ==
  IF n = 0 THEN { <<>> }
  ELSE { Append(u, c) : u \in IdsOfLen(n - 1), c \in {49, 50} }
UserIds == UNION { IdsOfLen(n) : n \in 1..MaxIdLen }

\* calculateScoreWithAlgorithm(userDateSeed, date, algorithm, Code, password)
CalculateScore ==
  /\ score = NoScore
  /\ IF query.code # <<>> /\ query.password # <<>>
       THEN \E randomValue \in 0..1000 : score' = calculateJrrpWithCode(randomValue)
       ELSE CASE query.algorithm = "gaussian" ->
                   \E rounded \in (50 - MaxSpread)..(50 + MaxSpread) :
                      score' = GaussianScore(rounded)
              [] query.algorithm = "linear" ->
                   score' = LinearScore(UserDateSeed(query.userId, query.date))
              [] OTHER ->
                   score' = BasicScore(UserDateSeed(query.userId, query.date))
  /\ UNCHANGED query
  /\ ScoreOnly

IdleScore ==
  /\ query = [userId |-> <<49>>, date |-> [year |-> 2025, month |-> 3, day |-> 31],
              algorithm |-> "basic", code |-> <<>>, password |-> <<>>]
  /\ score = NoScore

InitScore ==
  /\ query \in [userId : UserIds, date : Dates, algorithm : Algorithms,
                code : { <<>>, <<65, 49>> }, password : { <<>>, <<112>> }]
  /\ score = NoScore

(***************************************************************************)
(* The hash functions character by character: JrrpService.hashCode and     *)
(* JrrpCalculator.getHash, and the two hashes calculateJrrpWithCode         *)
(* merges.  A BigInt is the sequence of its 16-bit limbs, the lowest        *)
(* first; it has as many limbs as the operations gave it.                   *)
(***************************************************************************)
\* the longest string hashed character by character
MaxHashLen == 5

\* charCodeAt yields a UTF-16 code unit, 0..65535
HashChars == {0, 97, 65535}

RECURSIVE StringsOfLen(_)
StringsOfLen(n) ==
  IF n = 0 THEN { <<>> }
  ELSE { Append(x, c) : x \in StringsOfLen(n - 1), c \in HashChars }

HashInputs == UNION { StringsOfLen(n) : n \in 0..MaxHashLen }

\* a << BigInt(5), carry being what the limbs below pushed up
RECURSIVE ShlLimbs(_, _)
ShlLimbs(a, carry) ==
  IF a = <<>> THEN << carry >>
  ELSE LET t == Head(a) * 32 + carry
       IN  << t % 65536 >> \o ShlLimbs(Tail(a), t \div 65536)

\* a ^ b on BigInts
RECURSIVE XorLimbs(_, _)
XorLimbs(a, b) ==
  IF a = <<>> THEN b
  ELSE IF b = <<>> THEN a
  ELSE << BitXor(Head(a), Head(b)) >> \o XorLimbs(Tail(a), Tail(b))

\* a & ((BigInt(1) << BigInt(64)) - BigInt(1))
Mask64(a) == SubSeq(a, 1, 4)

\* one round of getHash without the mask
GetHashStepUnmasked(a, c) == XorLimbs(XorLimbs(ShlLimbs(a, 0), a), << c >>)

\* one round of getHash:
\*   hash = ((hash << 5n) ^ hash ^ BigInt(str.charCodeAt(i))) & (2n ** 64n - 1n)
GetHashStep(a, c) == Mask64(XorLimbs(XorLimbs(ShlLimbs(a, 0), a), << c >>))

\* BigInt(5381)
Seed64 == << 5381, 0, 0, 0 >>

\* BigInt('0xa98f501bc684032f')
Salt == << 815, 50820, 20507, 43407 >>

\* the accumulator of getHash after the first n characters of str
RECURSIVE GetHashFold(_, _, _)
GetHashFold(a, str, n) ==
  IF n = 0 THEN a
  ELSE LET before == GetHashFold(a, str, n - 1)
       IN  GetHashStep(before, str[n])

getHash(str) == XorLimbs(GetHashFold(Seed64, str, Len(str)), Salt)

\* a / BigInt(d) for a small d, from the highest limb down
RECURSIVE DivLimbs(_, _, _)
DivLimbs(a, d, rem) ==
  IF a = <<>> THEN <<>>
  ELSE LET t == rem * 65536 + a[Len(a)]
       IN  DivLimbs(SubSeq(a, 1, Len(a) - 1), d, t % d) \o << t \div d >>

\* a + b on BigInts of the same number of limbs
RECURSIVE AddLimbs(_, _, _)
AddLimbs(a, b, carry) ==
  IF a = <<>> THEN << carry >>
  ELSE LET t == Head(a) + Head(b) + carry
       IN  << t % 65536 >> \o AddLimbs(Tail(a), Tail(b), t \div 65536)

\* the day of the year getDayOfYear computes
DayOfYear(date) ==
  LET leap == (date.year % 4 = 0 /\ date.year % 100 # 0) \/ date.year % 400 = 0
      before == << 0, 31, 59, 90, 120, 151, 181, 212, 243, 273, 304, 334 >>
  IN  before[date.month] + date.day + (IF leap /\ date.month > 2 THEN 1 ELSE 0)

\* ['asdfgbn', String(dayOfYear), '12#3$45', String(year), 'IUY'].join('')
CodeSeed1(date) ==
  << 97, 115, 100, 102, 103, 98, 110 >> \o DigitCodes(DayOfYear(date), 1)
    \o << 49, 50, 35, 51, 36, 52, 53 >> \o DigitCodes(date.year, 1) \o << 73, 85, 89 >>

\* [password, code, '0*8&6', String(day), 'kjhg'].join('')
CodeSeed2(password, code, date) ==
  password \o code \o << 48, 42, 56, 38, 54 >> \o DigitCodes(date.day, 1)
    \o << 107, 106, 104, 103 >>

\* hash1 / divisorThree + hash2 / divisorThree
MergedHash(hash1, hash2) == AddLimbs(DivLimbs(hash1, 3, 0), DivLimbs(hash2, 3, 0), 0)

NoHash == <<>>
NoCalc == [hash1 |-> <<>>, hash2 |-> <<>>, mergedHash |-> <<>>,
           randomValue |-> NoScore, score |-> NoScore]

\* one character of hashCode
HashCodeStep ==
  /\ HashOnly
  /\ hrun.fn = "hashCode" /\ hout = NoHash
  /\ hrun.pos < Len(hrun.str)
  /\ acc32' = HashStep(acc32, hrun.str[hrun.pos + 1])
  /\ hrun' = [hrun EXCEPT !.pos = hrun.pos + 1]
  /\ UNCHANGED <<acc64, hout, codeCalc>>

\* return hash
HashCodeReturn ==
  /\ HashOnly
  /\ hrun.fn = "hashCode" /\ hout = NoHash
  /\ hrun.pos = Len(hrun.str)
  /\ hout' = << acc32 >>
  /\ UNCHANGED <<hrun, acc32, acc64, codeCalc>>

\* one character of getHash, called on its own or by calculateJrrpWithCode
GetHashChar ==
  /\ HashOnly
  /\ hrun.fn = "getHash" \/ (hrun.fn = "calculateJrrpWithCode" /\ hrun.phase \in {1, 2})
  /\ hout = NoHash
  /\ hrun.pos < Len(hrun.str)
  /\ acc64' = GetHashStep(acc64, hrun.str[hrun.pos + 1])
  /\ hrun' = [hrun EXCEPT !.pos = hrun.pos + 1]
  /\ UNCHANGED <<acc32, hout, codeCalc>>

\* return hash ^ BigInt('0xa98f501bc684032f')
GetHashReturn ==
  /\ HashOnly
  /\ hrun.fn = "getHash" /\ hout = NoHash
  /\ hrun.pos = Len(hrun.str)
  /\ hout' = << XorLimbs(acc64, Salt) >>
  /\ UNCHANGED <<hrun, acc32, acc64, codeCalc>>

\* calculateJrrpWithCode(code, date, password): the first getHash has
\* returned hash1, the second is called
FirstHashReturns ==
  /\ HashOnly
  /\ hrun.fn = "calculateJrrpWithCode" /\ hrun.phase = 1
  /\ hrun.pos = Len(hrun.str)
  /\ codeCalc' = [codeCalc EXCEPT !.hash1 = XorLimbs(acc64, Salt)]
  /\ acc64' = Seed64
  /\ hrun' = [hrun EXCEPT !.phase = 2, !.pos = 0,
                          !.str = CodeSeed2(hrun.args.password, hrun.args.code,
                                            hrun.args.date)]
  /\ UNCHANGED <<acc32, hout>>

\* the second getHash has returned hash2: the hashes are merged and mapped
\* to the score.  randomValue is
\* Math.round(Math.abs(Number(mergedHash) / 527.0)) % 1001, the remainder
\* of a floating-point number: some number in 0..1000.
SecondHashReturns(randomValue) ==
  /\ HashOnly
  /\ hrun.fn = "calculateJrrpWithCode" /\ hrun.phase = 2
  /\ hrun.pos = Len(hrun.str)
  /\ LET hash2 == XorLimbs(acc64, Salt)
     IN  codeCalc' = [codeCalc EXCEPT !.hash2 = hash2,
                                      !.mergedHash = MergedHash(codeCalc.hash1, hash2),
                                      !.randomValue = randomValue,
                                      !.score = calculateJrrpWithCode(randomValue)]
  /\ hrun' = [hrun EXCEPT !.phase = 3]
  /\ UNCHANGED <<acc32, acc64, hout>>

NoArgs == [code |-> <<>>, date |-> DaySeq[1], password |-> <<>>]

IdleHash ==
  /\ hrun = [fn |-> "hashCode", str |-> <<>>, pos |-> 0, args |-> NoArgs, phase |-> 0]
  /\ acc32 = [hi |-> 0, lo |-> 5381]
  /\ acc64 = Seed64
  /\ hout = NoHash
  /\ codeCalc = NoCalc

CalcCodes == { <<65, 49>>, <<70, 70>> }
CalcPasswords == { <<112>> }

InitHash ==
  /\ hrun \in [fn : {"hashCode", "getHash"}, str : HashInputs, pos : {0},
               args : {NoArgs}, phase : {0}]
                \cup { [fn |-> "calculateJrrpWithCode", str |-> CodeSeed1(date), pos |-> 0,
                        args |-> [code |-> code, date |-> date, password |-> password],
                        phase |-> 1] :
                         code \in CalcCodes, date \in Dates, password \in CalcPasswords }
  /\ acc32 = [hi |-> 0, lo |-> 5381]
  /\ acc64 = Seed64
  /\ hout = NoHash
  /\ codeCalc = NoCalc

NextHash ==
  \/ HashCodeStep
  \/ HashCodeReturn
  \/ GetHashChar
  \/ GetHashReturn
  \/ FirstHashReturns
  \/ \E randomValue \in 0..1000 : SecondHashReturns(randomValue)

(***************************************************************************)
(* The Random.org adapter: JrrpService.getRandomOrgScoreStatic ("service"),*)
(* JrrpCalculator.getRandomOrgScore ("calculator") and                     *)
(* FortuneCalc.fetchRandom ("fortune").                                    *)
(*                                                                         *)
(* The first element of result.random.data is a record [type, n]: an       *)
(* integer n, a non-integer number (n its integer part), a string, or      *)
(* null.                                                                   *)
(***************************************************************************)
ServiceTimeout == 5000
FortuneTimeout == 2000

Variants == {"service", "calculator", "fortune"}
Timeout(v) == IF v = "fortune" THEN FortuneTimeout ELSE ServiceTimeout
HasTimer(v) == v # "calculator"

Elements ==
  { [type |-> "int", n |-> x] : x \in {0 - 1, 0, 42, 100, 150} }
    \cup { [type |-> "float", n |-> 3], [type |-> "string", n |-> 0],
           [type |-> "null", n |-> 0] }

\* the bodies of a 200 response: a result with data, a result with an
\* empty data array, a result without "random", a JSON-RPC error object,
\* and text that is not JSON
Payloads ==
  { [shape |-> "data", first |-> e] : e \in Elements }
    \cup { [shape |-> sh, first |-> [type |-> "null", n |-> 0]] :
             sh \in {"empty", "norandom", "error", "notjson"} }

Null == [kind |-> "null", v |-> [type |-> "null", n |-> 0]]
Value(e) == [kind |-> "value", v |-> e]
NotReturned == [kind |-> "none", v |-> [type |-> "null", n |-> 0]]

\* "?? null" on the element read
OrNull(e) == IF e.type = "null" THEN Null ELSE Value(e)

\* what the function returns once response.json() has settled with body p
\* (every exception is caught and becomes null)
Parsed(v, p) ==
  CASE p.shape = "notjson"  -> Null                 \* json() rejects: catch
    [] p.shape = "error"    -> Null                 \* data.error, or result undefined
    [] p.shape = "norandom" -> Null                 \* TypeError: catch; "?." in fortune
    [] p.shape = "empty"    -> Null                 \* data[0] is undefined
    [] OTHER                -> OrNull(p.first)

Awaiting == fpc \in {"fetching", "reading"}

\* the function is called
StartFetch(v, hasKey) ==
  /\ FetchOnly
  /\ fpc = "idle"
  /\ variant' = v
  /\ IF ~hasKey /\ v # "calculator"
       THEN \* if (!apiKey) return null
            /\ fpc' = "done"
            /\ fetched' = Null
            /\ UNCHANGED <<timer, requests>>
       ELSE /\ fpc' = "fetching"
            /\ timer' = IF HasTimer(v) THEN "armed" ELSE "none"
            /\ requests' = requests + 1
            /\ UNCHANGED fetched
  /\ UNCHANGED <<clock, aborted>>

\* time passes; an armed timer fires when it is due
Tick ==
  /\ FetchOnly
  /\ Awaiting \/ timer = "armed"
  /\ clock < MaxClock
  /\ ~(timer = "armed" /\ clock >= Timeout(variant))
  /\ clock' = clock + 1000
  /\ UNCHANGED <<variant, fpc, timer, requests, aborted, fetched>>

\* setTimeout(() => controller.abort(), ...) fires: a request in flight is
\* aborted, fetch rejects and the catch block returns null
TimerFires ==
  /\ FetchOnly
  /\ timer = "armed"
  /\ clock >= Timeout(variant)
  /\ timer' = "fired"
  /\ IF Awaiting
       THEN aborted' = TRUE /\ fpc' = "done" /\ fetched' = Null
       ELSE UNCHANGED <<aborted, fpc, fetched>>
  /\ UNCHANGED <<variant, clock, requests>>

\* fetch resolves with the response headers: clearTimeout, response.ok
HeadersArrive(ok) ==
  /\ FetchOnly
  /\ fpc = "fetching"
  /\ timer' = IF HasTimer(variant) THEN "cleared" ELSE timer
  /\ IF ok THEN fpc' = "reading" /\ UNCHANGED fetched
           ELSE fpc' = "done" /\ fetched' = Null
  /\ UNCHANGED <<variant, clock, requests, aborted>>

\* fetch rejects (transport error): the catch block returns null; only
\* the service variant clears the timer there
FetchFails ==
  /\ FetchOnly
  /\ fpc = "fetching"
  /\ fpc' = "done"
  /\ fetched' = Null
  /\ timer' = IF variant = "service" THEN "cleared" ELSE timer
  /\ UNCHANGED <<variant, clock, requests, aborted>>

\* response.json() settles
BodyArrives(p) ==
  /\ FetchOnly
  /\ fpc = "reading"
  /\ fpc' = "done"
  /\ fetched' = Parsed(variant, p)
  /\ UNCHANGED <<variant, timer, clock, requests, aborted>>

IdleFetch ==
  /\ variant = "service"
  /\ fpc = "idle"
  /\ timer = "none"
  /\ clock = 0
  /\ requests = 0
  /\ aborted = FALSE
  /\ fetched = NotReturned

(***************************************************************************)
(* The jrrp command in remote mode (algorithm RANDOMORG), in the two       *)
(* versions of the plugin: JrrpService with its userData file ("service")  *)
(* and FortuneCalc with the jrrp table of FortuneStore ("fortune").  What  *)
(* the fetch returned is an input of the command: a score, an integer      *)
(* outside 0..100 returned as it came (malformed), or null (failed).       *)
(***************************************************************************)
Users == IdsOfLen(1)
SomeCode == <<65, 49>>

RemoteOutcomes ==
  { [kind |-> "ok", v |-> x] : x \in {0, 42, 100} }
    \cup { [kind |-> "malformed", v |-> 150], [kind |-> "failed", v |-> NoScore] }

\* no record for the user (userData[userId] is undefined)
NoEntry == [present |-> FALSE, identification_code |-> <<>>, perfect_score |-> FALSE,
            randomScore |-> NoScore, timestamp |-> 0, algorithm |-> ""]

\* isExpired(timestamp)
isExpired(timestamp) == timestamp = 0 \/ timestamp # today

\* the record cleanUserData leaves
cleanUserData(e) ==
  IF ~e.present THEN e
  ELSE IF e.identification_code = <<>> /\ ~e.perfect_score THEN NoEntry
  ELSE [NoEntry EXCEPT !.present = TRUE,
                       !.identification_code = e.identification_code,
                       !.perfect_score = e.perfect_score]

\* bindIdentificationCode with a well-formed code
Bind(u) ==
  /\ ServiceOnly
  /\ config.impl = "service" /\ config.calCode
  /\ userData[u].identification_code # SomeCode
  /\ userData' = [userData EXCEPT ![u] = [@ EXCEPT !.present = TRUE,
                                                   !.identification_code = SomeCode]]
  /\ UNCHANGED <<config, today, jrrpTable, reply, recorded>>

\* removeIdentificationCode (jrrp.bind without a code)
Unbind(u) ==
  /\ ServiceOnly
  /\ config.impl = "service" /\ config.calCode
  /\ userData[u].identification_code # <<>>
  /\ userData' = [userData EXCEPT
                    ![u] = cleanUserData([@ EXCEPT !.identification_code = <<>>])]
  /\ UNCHANGED <<config, today, jrrpTable, reply, recorded>>

\* getRandomOrgScoreLocal for user u whose record is e, r being what the
\* fetch returns if it is called
getRandomOrgScoreLocal(u, e, r) ==
  IF /\ e.randomScore # NoScore
     /\ e.timestamp # 0
     /\ e.algorithm = "randomorg"
     /\ ~isExpired(e.timestamp)
    THEN [score |-> e.randomScore, remote |-> "cache", requests |-> 0]
  ELSE IF ~config.hasKey
    THEN [score |-> BasicScore(UserDateSeed(u, DaySeq[today])),
          remote |-> "nokey", requests |-> 0]
  ELSE IF r.kind = "failed"
    THEN [score |-> BasicScore(UserDateSeed(u, DaySeq[today])),
          remote |-> "failed", requests |-> 1]
    ELSE [score |-> r.v, remote |-> r.kind, requests |-> 1]

\* recordUserScore(userId, score, name, algorithm)
recordUserScore(data, u, sc, algorithm) ==
  LET cleaned ==
        IF data[u].timestamp # 0 /\ isExpired(data[u].timestamp)
          THEN [x \in DOMAIN data |->
                  IF data[x].timestamp # 0 /\ isExpired(data[x].timestamp)
                    THEN cleanUserData(data[x]) ELSE data[x]]
          ELSE data
  IN  [cleaned EXCEPT ![u] = [@ EXCEPT !.present = TRUE, !.randomScore = sc,
                                       !.timestamp = today, !.algorithm = algorithm]]

\* the jrrp command of the JrrpService version: processJrrpCommand with
\* formatJrrpMessage, the zero-score confirmation and recordUserScore.
\* r1 and r2 are what the first and the second fetch return, confirm the
\* user's answer to the zero-score prompt.
JrrpService(u, r1, r2, confirm) ==
  /\ ServiceOnly
  /\ config.impl = "service"
  /\ LET e == userData[u]
         hasCode == config.calCode /\ e.identification_code # <<>>
         first == getRandomOrgScoreLocal(u, e, r1)
         zero == first.score = 0 /\ hasCode
         second == getRandomOrgScoreLocal(u, e, r2)
         final == IF zero THEN second ELSE first
         nreq == IF zero THEN first.requests + second.requests ELSE first.requests
         perfect == hasCode /\ final.score = 100 /\ ~e.perfect_score
         marked == IF perfect
                     THEN [userData EXCEPT ![u] = [@ EXCEPT !.present = TRUE,
                                                            !.perfect_score = TRUE]]
                     ELSE userData
     IN  IF zero /\ ~confirm
           THEN /\ reply' = [impl |-> "service", userId |-> u, day |-> today,
                             score |-> NoScore, algorithm |-> "",
                             remote |-> first.remote, requests |-> first.requests,
                             prior |-> recorded[u], stored |-> ""]
                /\ UNCHANGED <<userData, recorded>>
           ELSE /\ reply' = [impl |-> "service", userId |-> u, day |-> today,
                             score |-> final.score, algorithm |-> "randomorg",
                             remote |-> final.remote, requests |-> nreq,
                             prior |-> recorded[u], stored |-> "randomorg"]
                /\ userData' = recordUserScore(marked, u, final.score, "randomorg")
                /\ recorded' = [recorded EXCEPT ![u] = final.score]
  /\ UNCHANGED <<config, today, jrrpTable>>

\* Date.toLocaleDateString() in the default locale, here M/D/YYYY
LocaleDateText(date) ==
  DigitCodes(date.month, 1) \o <<47>> \o DigitCodes(date.day, 1) \o <<47>>
    \o DigitCodes(date.year, 4)

\* one round of generateSeed: hash = ((hash << 5) - hash) + c, hash |= 0
SeedStep(h, c) ==
  LET l == 31 * h.lo + c
  IN  [lo |-> l % 65536, hi |-> (31 * h.hi + l \div 65536) % 65536]

\* the loop of generateSeed from character i on; each round's hash is a
\* value before the next round starts
RECURSIVE SeedFold(_, _, _)
SeedFold(h, str, i) ==
  IF i > Len(str) THEN h
  ELSE CHOOSE r \in { SeedFold(x, str, i + 1) : x \in { SeedStep(h, str[i]) } } : TRUE

\* Math.abs of the signed 32-bit number whose bits are h
Abs32(h) ==
  IF h.hi < 32768 THEN h
  ELSE [lo |-> (65536 - h.lo) % 65536,
        hi |-> (65535 - h.hi + (IF h.lo = 0 THEN 1 ELSE 0)) % 65536]

\* FortuneCalc.generateSeed(userId, dateStr)
generateSeed(userId, dateStr) ==
  Abs32(SeedFold([hi |-> 0, lo |-> 0], userId \o dateStr, 1))

\* Math.floor(((1664525 * seed + 1013904223) % 2 ** 32) / 2 ** 32 * 101)
\* with 1664525 = 25 * 65536 + 26125, 1013904223 = 15470 * 65536 + 62303
LcgScore(seed) ==
  LET p == seed.lo * 26125 + 62303
      lo == p % 65536
      hi == (seed.hi * 26125 + seed.lo * 25 + 15470 + p \div 65536) % 65536
  IN  (hi * 101 + (lo * 101) \div 65536) \div 65536

\* FortuneCalc.calculate(userId, date) with algorithm RANDOMORG; r is what
\* fetchRandom returns if it is called
calculate(u, r) ==
  IF config.hasKey /\ r.kind # "failed"
    THEN [score |-> r.v, actualAlgorithm |-> "randomorg", remote |-> r.kind,
          requests |-> 1]
    ELSE [score |-> LcgScore(generateSeed(u, LocaleDateText(DaySeq[today]))),
          actualAlgorithm |-> "randomorg",      \* this.algorithm
          remote |-> IF config.hasKey THEN "failed" ELSE "nokey",
          requests |-> IF config.hasKey THEN 1 ELSE 0]

\* FortuneStore.getFortune(userId): the rows of the user for today
getFortune(u) == { row \in jrrpTable : row.userId = u /\ row.date = today }

\* database.upsert on the primary key (userId, date)
Upsert(table, row) ==
  { x \in table : ~(x.userId = row.userId /\ x.date = row.date) } \cup { row }

\* the jrrp command of the FortuneCalc version; saved tells whether the
\* upsert of store.save succeeded (a failure is swallowed)
JrrpFortune(u, r, saved) ==
  /\ ServiceOnly
  /\ config.impl = "fortune"
  /\ IF getFortune(u) # {}
       THEN LET cached == CHOOSE row \in getFortune(u) : TRUE
            IN  /\ reply' = [impl |-> "fortune", userId |-> u, day |-> today,
                             score |-> cached.score, algorithm |-> cached.algorithm,
                             remote |-> "cache", requests |-> 0,
                             prior |-> recorded[u], stored |-> cached.algorithm]
                /\ UNCHANGED <<jrrpTable, recorded>>
       ELSE LET res == calculate(u, r)
            IN  /\ reply' = [impl |-> "fortune", userId |-> u, day |-> today,
                             score |-> res.score, algorithm |-> res.actualAlgorithm,
                             remote |-> res.remote, requests |-> res.requests,
                             prior |-> recorded[u],
                             stored |-> IF saved THEN res.actualAlgorithm ELSE ""]
                /\ IF saved
                     THEN /\ jrrpTable' = Upsert(jrrpTable,
                                 [userId |-> u, date |-> today,
                                  algorithm |-> res.actualAlgorithm, score |-> res.score])
                          /\ recorded' = [recorded EXCEPT ![u] = res.score]
                     ELSE UNCHANGED <<jrrpTable, recorded>>
  /\ UNCHANGED <<config, today, userData>>

\* midnight
NextDay ==
  /\ ServiceOnly
  /\ today < Len(DaySeq)
  /\ today' = today + 1
  /\ recorded' = [u \in Users |-> NoScore]
  /\ UNCHANGED <<config, userData, jrrpTable, reply>>

NoReply == [impl |-> "", userId |-> <<>>, day |-> 0, score |-> NoScore, algorithm |-> "",
            remote |-> "", requests |-> 0, prior |-> NoScore, stored |-> ""]

IdleService ==
  /\ config = [impl |-> "service", hasKey |-> TRUE, calCode |-> FALSE]
  /\ today = 1
  /\ userData = [u \in Users |-> NoEntry]
  /\ jrrpTable = {}
  /\ reply = NoReply
  /\ recorded = [u \in Users |-> NoScore]

InitService ==
  /\ config \in { c \in [impl : {"service", "fortune"}, hasKey : BOOLEAN, calCode : BOOLEAN] :
                    c.impl = "fortune" => ~c.calCode }
  /\ today = 1
  /\ userData = [u \in Users |-> NoEntry]
  /\ jrrpTable = {}
  /\ reply = NoReply
  /\ recorded = [u \in Users |-> NoScore]

InitSynth ==
  /\ digitExpressions = NoCache
  /\ origin = NoCache
  /\ served = {}
  /\ expressionsInitialized = TRUE
  /\ stack = <<>>
  /\ call = [fn |-> "none", target |-> 0, base |-> 6, via |-> "direct"]
  /\ status = "idle"
  /\ result = <<>>

Run == Enter \/ Return \/ Overflow \/ Finish

NextSynth ==
  \/ /\ CanCall
     /\ \E fn \in Generators, target \in Targets, baseNumber \in Bases :
          Invoke(fn, target, baseNumber)
  \/ /\ CanCall
     /\ \E sc \in Targets, date \in Days, foolConfig \in FoolConfigs(Bases), fn \in Generators :
          FormatScore(sc, date, foolConfig, fn)
  \/ Enter
  \/ Return
  \/ Overflow
  \/ Finish

(***************************************************************************)
(* Identification codes: binding, unbinding and the use of the bound code  *)
(* by the score engine, in JrrpService ("service": userData kept in        *)
(* memory and saved to a file) and in CodeStore ("store": the profile file *)
(* read and rewritten by every operation).  Strings are sequences of       *)
(* UTF-16 code units.                                                      *)
(***************************************************************************)
\* the code units String.prototype.trim removes
WhiteSpace ==
  {9, 10, 11, 12, 13, 32, 160, 5760, 8232, 8233, 8239, 8287, 12288, 65279}
    \cup (8192..8202)

\* code.trim()
RECURSIVE TrimStart(_), TrimEnd(_)
TrimStart(s) ==
  IF s # <<>> /\ Head(s) \in WhiteSpace THEN TrimStart(Tail(s)) ELSE s
TrimEnd(s) ==
  IF s # <<>> /\ s[Len(s)] \in WhiteSpace THEN TrimEnd(SubSeq(s, 1, Len(s) - 1)) ELSE s
Trim(s) == TrimEnd(TrimStart(s))

\* code.toUpperCase(), on the Basic Latin letters
ToUpperCase(s) == [i \in 1..Len(s) |-> IF s[i] \in 97..122 THEN s[i] - 32 ELSE s[i]]

\* [0-9A-F]
HexDigit == (48..57) \cup (65..70)
\* [0-9A-F]{4} at position i of s
HexRun(s, i) == \A k \in 0..3 : i + k <= Len(s) /\ s[i + k] \in HexDigit

\* the pattern without its closing anchor
UnanchoredPattern(s) ==
  /\ HexRun(s, 1) /\ Len(s) >= 5 /\ s[5] = 45
  /\ HexRun(s, 6) /\ Len(s) >= 10 /\ s[10] = 45
  /\ HexRun(s, 11) /\ Len(s) >= 15 /\ s[15] = 45
  /\ HexRun(s, 16)

\* /^[0-9A-F]{4}-[0-9A-F]{4}-[0-9A-F]{4}-[0-9A-F]{4}$/.test(s)
MatchesCodePattern(s) ==
  /\ HexRun(s, 1) /\ Len(s) >= 5 /\ s[5] = 45
  /\ HexRun(s, 6) /\ Len(s) >= 10 /\ s[10] = 45
  /\ HexRun(s, 11) /\ Len(s) >= 15 /\ s[15] = 45
  /\ HexRun(s, 16)
  /\ Len(s) = 19

\* "1A2B-3C4D-5E6F-7890" and "FFFF-0000-FFFF-0000"
CodeA == <<49, 65, 50, 66, 45, 51, 67, 52, 68, 45, 53, 69, 54, 70, 45, 55, 56, 57, 48>>
CodeB == <<70, 70, 70, 70, 45, 48, 48, 48, 48, 45, 70, 70, 70, 70, 45, 48, 48, 48, 48>>
\* s in lower case
Lower(s) == [i \in 1..Len(s) |-> IF s[i] \in 65..90 THEN s[i] + 32 ELSE s[i]]

\* what users send to jrrp.bind: the two codes as they are, in lower case
\* and with white space around them, and strings that are no codes: one
\* with a letter past F, one with another separator, one a character
\* short, one a character long, one with a space inside, one padded with
\* a character trim leaves alone, the empty string and a blank one
BindInputs ==
  { CodeA, CodeB, Lower(CodeA), <<32>> \o Lower(CodeB) \o <<10>>,
    [CodeA EXCEPT ![2] = 71], [CodeA EXCEPT ![2] = 103], [CodeA EXCEPT ![5] = 95],
    SubSeq(CodeA, 1, 18), CodeA \o <<48>>, [CodeB EXCEPT ![10] = 32],
    CodeB \o <<8203>>, <<>>, <<32, 9>> }

NoCode == <<0>>
NoLink == [op |-> "", uid |-> <<>>, code |-> <<>>, ok |-> FALSE,
           before |-> <<>>, after |-> <<>>]

\* the store with nothing bound
EmptyStore(impl) ==
  [impl |-> impl, code |-> [u \in Users |-> <<>>], unlocked |-> [u \in Users |-> FALSE]]

\* JrrpService.bindIdentificationCode(userId, code); saved is whether
\* saveData could write the file
bindIdentificationCode(u, code, saved) ==
  /\ CodeOnly
  /\ profiles.impl = "service"
  /\ LET formattedCode == ToUpperCase(Trim(code))
         bound == [profiles EXCEPT !.code[u] = formattedCode]
     IN  IF Trim(code) = <<>> \/ ~MatchesCodePattern(formattedCode)
           THEN /\ profiles' = profiles
                /\ linked' = [op |-> "bind", uid |-> u, code |-> code, ok |-> FALSE,
                              before |-> profiles.code, after |-> profiles.code]
           ELSE /\ profiles' = bound
                /\ linked' = [op |-> "bind", uid |-> u, code |-> code, ok |-> saved,
                              before |-> profiles.code, after |-> bound.code]
  /\ UNCHANGED engine

\* JrrpService.removeIdentificationCode(userId)
removeIdentificationCode(u) ==
  /\ CodeOnly
  /\ profiles.impl = "service"
  /\ profiles' = [profiles EXCEPT !.code[u] = <<>>]
  /\ linked' = [op |-> "unbind", uid |-> u, code |-> <<>>, ok |-> TRUE,
                before |-> profiles.code, after |-> profiles'.code]
  /\ UNCHANGED engine

\* CodeStore.linkCode(uid, code); loaded is whether load could read the
\* profile file (it answers {} when it cannot), written whether writeFile
\* succeeded (linkCode throws when it did not)
linkCode(u, code, loaded, written) ==
  /\ CodeOnly
  /\ profiles.impl = "store"
  /\ LET formatted == ToUpperCase(Trim(code))
         read == IF loaded THEN profiles ELSE EmptyStore("store")
         linkedTo == [read EXCEPT !.code[u] = formatted]
     IN  IF ~MatchesCodePattern(formatted)
           THEN /\ profiles' = profiles
                /\ linked' = [op |-> "bind", uid |-> u, code |-> code, ok |-> FALSE,
                              before |-> profiles.code, after |-> profiles.code]
           ELSE /\ profiles' = IF written THEN linkedTo ELSE profiles
                /\ linked' = [op |-> "bind", uid |-> u, code |-> code, ok |-> written,
                              before |-> profiles.code, after |-> profiles'.code]
  /\ UNCHANGED engine

\* formatJrrpMessage of JrrpService for a user with a bound code: the
\* code goes to calculateJrrpWithCode
CodeScoreOfService(u) ==
  /\ CodeOnly
  /\ profiles.impl = "service"
  /\ profiles.code[u] # <<>>
  /\ engine' = profiles.code[u]
  /\ UNCHANGED <<profiles, linked>>

\* the jrrp.code command of CodeStore: the code goes to getScore, and a
\* score of 100 (perfect) unlocks the theme
CodeCommand(u, perfect) ==
  /\ CodeOnly
  /\ profiles.impl = "store"
  /\ profiles.code[u] # <<>>
  /\ engine' = profiles.code[u]
  /\ profiles' = IF perfect THEN [profiles EXCEPT !.unlocked[u] = TRUE] ELSE profiles
  /\ UNCHANGED linked

IdleCode ==
  /\ profiles = EmptyStore("service")
  /\ linked = NoLink
  /\ engine = NoCode

InitCode ==
  /\ profiles \in { EmptyStore("service"), EmptyStore("store") }
  /\ linked = NoLink
  /\ engine = NoCode

NextCode ==
  \/ \E u \in Users, code \in BindInputs, saved \in BOOLEAN :
       bindIdentificationCode(u, code, saved)
  \/ \E u \in Users : removeIdentificationCode(u)
  \/ \E u \in Users, code \in BindInputs, loaded \in BOOLEAN, written \in BOOLEAN :
       linkCode(u, code, loaded, written)
  \/ \E u \in Users : CodeScoreOfService(u)
  \/ \E u \in Users, perfect \in BOOLEAN : CodeCommand(u, perfect)

(***************************************************************************)
(* The range messages: validateRangeMessages on the keys of the            *)
(* configuration, and getScoreMessage looking a score up in them.  A key   *)
(* is a string; the numbers parsed from it are kept in tenths, so that     *)
(* "50.5" is 505 (halves are exact in a double).                           *)
(***************************************************************************)
\* Number(s) when s is not a number
NaN == 0 - 1

\* rangeKey.split('-')
RECURSIVE Split(_, _)
Split(s, cur) ==
  IF s = <<>> THEN << cur >>
  ELSE IF Head(s) = 45 THEN << cur >> \o Split(Tail(s), <<>>)
  ELSE Split(Tail(s), Append(cur, Head(s)))

\* the value of a string of decimal digits
RECURSIVE DigitsValue(_, _)
DigitsValue(s, acc) ==
  IF s = <<>> THEN acc ELSE DigitsValue(Tail(s), acc * 10 + (Head(s) - 48))

AllDigits(s) == \A i \in 1..Len(s) : s[i] \in 48..57

\* Number(s), in tenths: 0 for the empty string, the value of a decimal
\* literal with at most one digit after the point, NaN for the other
\* strings of digits, points and letters
ToNumber(s) ==
  IF s = <<>> THEN 0
  ELSE IF AllDigits(s) THEN DigitsValue(s, 0) * 10
  ELSE IF /\ Len(s) >= 3 /\ s[Len(s) - 1] = 46
          /\ AllDigits(SubSeq(s, 1, Len(s) - 2)) /\ s[Len(s)] \in 48..57
    THEN DigitsValue(SubSeq(s, 1, Len(s) - 2), 0) * 10 + (s[Len(s)] - 48)
  ELSE NaN

\* const [start, end] = rangeKey.split('-').map(Number); a part that is
\* missing is undefined, which compares like NaN
ParseRange(rangeKey) ==
  LET parts == Split(rangeKey, <<>>)
  IN  [start |-> ToNumber(parts[1]),
       end |-> IF Len(parts) >= 2 THEN ToNumber(parts[2]) ELSE NaN]

\* isNaN(start) || isNaN(end) || start > end || start < 0 || end > 100
InvalidRange(r) ==
  r.start = NaN \/ r.end = NaN \/ r.start > r.end \/ r.start < 0 \/ r.end > 1000

\* rangeIntervals.sort((a, b) => a[0] - b[0]); the sort is stable
RECURSIVE InsertByStart(_, _), SortByStart(_)
InsertByStart(sorted, r) ==
  IF sorted = <<>> THEN << r >>
  ELSE IF Head(sorted).start <= r.start
    THEN << Head(sorted) >> \o InsertByStart(Tail(sorted), r)
  ELSE << r >> \o sorted
SortByStart(rs) ==
  IF rs = <<>> THEN <<>>
  ELSE InsertByStart(SortByStart(SubSeq(rs, 1, Len(rs) - 1)), rs[Len(rs)])

\* validateRangeMessages(range): "accepted" when it returns, else what it
\* throws
validateRangeMessages(range) ==
  LET parsed == [i \in 1..Len(range) |-> ParseRange(range[i])]
      rangeIntervals == SortByStart(parsed)
  IN  IF \E i \in 1..Len(range) : InvalidRange(parsed[i]) THEN "Invalid range format"
      ELSE IF rangeIntervals = <<>> THEN "TypeError"
      ELSE IF rangeIntervals[1].start # 0 \/ rangeIntervals[Len(rangeIntervals)].end # 1000
        THEN "Ranges must completely cover 0 to 100"
      ELSE IF \E i \in 2..Len(rangeIntervals) :
                rangeIntervals[i].start # rangeIntervals[i - 1].end + 10
        THEN "Overlap or gap between ranges"
      ELSE "accepted"

\* score >= min && score <= max, false when min or max is NaN
InRange(sc, r) == r.start # NaN /\ r.end # NaN /\ sc * 10 >= r.start /\ sc * 10 <= r.end

\* the decimal digits of n
RECURSIVE Decimal(_)
Decimal(n) == IF n < 10 THEN << 48 + n >> ELSE Append(Decimal(n \div 10), 48 + (n % 10))

\* the key 'min-max'
RangeKey(min, max) == Decimal(min) \o <<45>> \o Decimal(max)

\* the keys configurations are made of: whole ranges, two ranges ending
\* and starting on a half, a range with its bounds swapped, one past 100,
\* one without a lower bound, one with a third part, one that is no range
RangeKeys ==
  { RangeKey(0, 100), RangeKey(0, 50), RangeKey(51, 100), RangeKey(50, 100),
    RangeKey(0, 50) \o <<46, 53>>, Decimal(51) \o <<46, 53, 45>> \o Decimal(100),
    RangeKey(60, 52), RangeKey(51, 101), <<45>> \o Decimal(50),
    RangeKey(51, 100) \o <<45, 120>>, <<120>> }

\* the configurations: up to MaxRanges different keys, in the order of
\* Object.keys
MaxRanges == 3
RECURSIVE RangeConfigs(_)
RangeConfigs(n) ==
  IF n = 0 THEN { <<>> }
  ELSE RangeConfigs(n - 1) \cup
       { Append(c, k) : c \in { d \in RangeConfigs(n - 1) : Len(d) = n - 1 },
                        k \in RangeKeys }

Distinct(c) == \A i, j \in 1..Len(c) : i # j => c[i] # c[j]

NoLookup == [score |-> NoScore, message |-> 0, hits |-> {}]

\* the plugin starting: validateRangeMessages(config.range)
Validate ==
  /\ RangeOnly
  /\ verdict = "unchecked"
  /\ verdict' = validateRangeMessages(ranges)
  /\ UNCHANGED <<ranges, matched>>

\* getScoreMessage(score) of a plugin that started, with no special
\* message for the score: the first range in the order of the
\* configuration that holds the score gives the message (0 when none
\* does); hits are all the ranges that hold it
GetScoreMessage(sc) ==
  /\ RangeOnly
  /\ verdict = "accepted"
  /\ LET hits == { i \in 1..Len(ranges) : InRange(sc, ParseRange(ranges[i])) }
     IN  matched' = [score |-> sc,
                     message |-> IF hits = {} THEN 0
                                 ELSE CHOOSE i \in hits : \A j \in hits : i <= j,
                     hits |-> hits]
  /\ UNCHANGED <<ranges, verdict>>

IdleRange ==
  /\ ranges = <<>>
  /\ verdict = "unchecked"
  /\ matched = NoLookup

InitRange ==
  /\ ranges \in { c \in RangeConfigs(MaxRanges) : Distinct(c) }
  /\ verdict = "unchecked"
  /\ matched = NoLookup

NextRangeMessages ==
  \/ Validate
  \/ \E sc \in 0..100 : GetScoreMessage(sc)

(***************************************************************************)
(* The display of a score: formatScore of JrrpService ("service") and of   *)
(* ExpressionGenerator ("generator") deciding between the plain number and *)
(* the special format.  displayDate is a string, the day asked about a     *)
(* pair <<month, day>>.                                                    *)
(***************************************************************************)
\* String(n).padStart(2, '0')
PadStart2(n) == IF Len(Decimal(n)) < 2 THEN <<48>> \o Decimal(n) ELSE Decimal(n)

\* `${String(date.getMonth() + 1).padStart(2, '0')}-${String(date.getDate()).padStart(2, '0')}`
monthDay(date) == PadStart2(date[1]) \o <<45>> \o PadStart2(date[2])

\* JrrpService.formatScore: !foolConfig.date || foolConfig.date === monthDay
ServiceValidFoolDate(date, displayDate) ==
  displayDate = <<>> \/ displayDate = monthDay(date)

\* ExpressionGenerator.formatScore: isValidFoolDate()
GeneratorValidFoolDate(date, displayDate) ==
  \/ displayDate = <<>>
  \/ LET parts == Split(displayDate, <<>>)
         month == ToNumber(parts[1])
         day == IF Len(parts) >= 2 THEN ToNumber(parts[2]) ELSE NaN
     IN  date[1] * 10 = month /\ date[2] * 10 = day

\* the configured displayDate: '', '4-1', '04-01', '4-2', '12-25'
DisplayDates ==
  { <<>>, <<52, 45, 49>>, <<48, 52, 45, 48, 49>>, <<52, 45, 50>>, <<49, 50, 45, 50, 53>> }
\* the days scores are shown on
DisplayDays == { <<4, 1>>, <<4, 2>>, <<1, 4>>, <<12, 25>> }
DisplayScores == {0, 42, 100}

\* which of its formats formatScore returns the score in
formatScore(impl, date, foolConfig) ==
  LET valid == IF impl = "service" THEN ServiceValidFoolDate(date, foolConfig.date)
               ELSE GeneratorValidFoolDate(date, foolConfig.date)
  IN  IF foolConfig.type # "enabled" \/ ~valid THEN "decimal"
      ELSE IF foolConfig.displayType = "binary" THEN "binary"
      ELSE IF foolConfig.displayType = "expression" THEN "expression"
      ELSE "decimal"

NoDisplay == [impl |-> "", type |-> "", date |-> <<>>, displayType |-> "",
              day |-> <<1, 1>>, score |-> NoScore, out |-> ""]

\* one score shown
ShowScore(impl, sc, date, foolConfig) ==
  /\ DisplayOnly
  /\ display' = [impl |-> impl, type |-> foolConfig.type, date |-> foolConfig.date,
                 displayType |-> foolConfig.displayType, day |-> date, score |-> sc,
                 out |-> formatScore(impl, date, foolConfig)]

IdleDisplay == display = NoDisplay

NextDisplay ==
  \E impl \in {"service", "generator"}, sc \in DisplayScores, date \in DisplayDays,
     foolConfig \in [type : {"disabled", "enabled"}, date : DisplayDates,
                     displayType : {"binary", "expression"}] :
    ShowScore(impl, sc, date, foolConfig)

(***************************************************************************)
(* The ranking of the day: recordUserScore, getTodayRanking and            *)
(* getUserRank of JrrpService.  The clock counts hours; a timestamp is the *)
(* ISO string of an instant, kept as its UTC date and hour.                *)
(***************************************************************************)
TickHours == 8
MaxClockHours == 48
TimeZones == {0, 8}
RankUsers == {"a", "b", "c"}
RankScores == {10, 90}

\* new Date().toISOString()
toISOString(instant) == [date |-> instant \div 24, hour |-> instant % 24]
\* new Date(timestamp)
ParseTimestamp(timestamp) == timestamp.date * 24 + timestamp.hour
\* date.toLocaleDateString('en-CA'): the local calendar day
toLocaleDateString(instant) == (instant + zone) \div 24

\* isExpired with the UTC date of the timestamp in place of the local one
IsExpiredByUtcDate(timestamp) == timestamp.date # toLocaleDateString(now)

\* isExpired(timestamp) of a timestamp that is set
IsExpiredAt(timestamp) ==
  toLocaleDateString(ParseTimestamp(timestamp)) # toLocaleDateString(now)

\* the entries of b without those of the users in gone
RECURSIVE Without(_, _)
Without(b, gone) ==
  IF b = <<>> THEN <<>>
  ELSE IF Head(b).userId \in gone THEN Without(Tail(b), gone)
  ELSE << Head(b) >> \o Without(Tail(b), gone)

\* .sort((a, b) => b.score - a.score), which is stable
RECURSIVE InsertByScore(_, _), SortByScore(_)
InsertByScore(sorted, e) ==
  IF sorted = <<>> THEN << e >>
  ELSE IF Head(sorted).score >= e.score
    THEN << Head(sorted) >> \o InsertByScore(Tail(sorted), e)
  ELSE << e >> \o sorted
SortByScore(es) ==
  IF es = <<>> THEN <<>>
  ELSE InsertByScore(SortByScore(SubSeq(es, 1, Len(es) - 1)), es[Len(es)])

\* getTodayRanking()
getTodayRanking ==
  SortByScore(Without(board, { board[i].userId : i \in { j \in 1..Len(board) :
                                                  IsExpiredAt(board[j].timestamp) } }))

\* getUserRank(userId)
getUserRank(userId) ==
  LET ranking == getTodayRanking
      found == { i \in 1..Len(ranking) : ranking[i].userId = userId }
  IN  IF found = {} THEN 0 - 1 ELSE CHOOSE i \in found : \A j \in found : i <= j

NotAsked == [fresh |-> FALSE, ranking |-> <<>>, ranks |-> [u \in RankUsers |-> 0]]

\* recordUserScore(userId, score): when the user's own entry is of an
\* earlier day every entry of an earlier day is cleaned, which deletes it,
\* no code being bound here; then the entry is written
RecordUserScore(u, sc) ==
  /\ BoardOnly
  /\ LET own == { i \in 1..Len(board) : board[i].userId = u }
         expired == { board[i].userId : i \in { j \in 1..Len(board) :
                                          IsExpiredAt(board[j].timestamp) } }
         cleaned == IF u \in expired THEN Without(board, expired) ELSE board
         entry == [userId |-> u, score |-> sc, timestamp |-> toISOString(now), at |-> now]
     IN  board' = IF \E i \in 1..Len(cleaned) : cleaned[i].userId = u
                    THEN [i \in 1..Len(cleaned) |->
                            IF cleaned[i].userId = u THEN entry ELSE cleaned[i]]
                    ELSE Append(cleaned, entry)
  /\ asked' = NotAsked
  /\ UNCHANGED <<now, zone>>

\* time passing
HoursPass ==
  /\ BoardOnly
  /\ now + TickHours <= MaxClockHours
  /\ now' = now + TickHours
  /\ asked' = NotAsked
  /\ UNCHANGED <<board, zone>>

\* the jrrp.rank command: getTodayRanking() and getUserRank of a user
AskRanking ==
  /\ BoardOnly
  /\ ~asked.fresh
  /\ asked' = [fresh |-> TRUE, ranking |-> getTodayRanking,
               ranks |-> [u \in RankUsers |-> getUserRank(u)]]
  /\ UNCHANGED <<board, now, zone>>

IdleBoard ==
  /\ board = <<>>
  /\ now = 0
  /\ zone = 0
  /\ asked = NotAsked

InitBoard ==
  /\ board = <<>>
  /\ now = 0
  /\ zone \in TimeZones
  /\ asked = NotAsked

NextBoard ==
  \/ \E u \in RankUsers, sc \in RankScores : RecordUserScore(u, sc)
  \/ HoursPass
  \/ AskRanking

(***************************************************************************)
(* The score as a function of its arguments: calculateScoreWithAlgorithm   *)
(* evaluated more than once, at different moments.                         *)
(***************************************************************************)
MaxEvaluations == 2
Moments == {1, 2}
Draws == {0, 100}

\* calculateScoreWithAlgorithm with the Gaussian case taken from
\* Math.random
ScoreFromDraw(t, m, draw) ==
  IF t.code # <<>> /\ t.password # <<>> THEN calculateJrrpWithCode(m.randomValue)
  ELSE CASE t.algorithm = "gaussian" -> GaussianScore(draw)
         [] t.algorithm = "linear" -> LinearScore(UserDateSeed(t.userId, t.date))
         [] OTHER -> BasicScore(UserDateSeed(t.userId, t.date))

\* calculateScoreWithAlgorithm(userDateSeed, date, algorithm, Code,
\* password); draw is what Math.random would give at the moment of the
\* call
ScoreOfTrial(t, m, draw) ==
  IF t.code # <<>> /\ t.password # <<>> THEN calculateJrrpWithCode(m.randomValue)
  ELSE CASE t.algorithm = "gaussian" -> GaussianScore(m.rounded)
         [] t.algorithm = "linear" -> LinearScore(UserDateSeed(t.userId, t.date))
         [] OTHER -> BasicScore(UserDateSeed(t.userId, t.date))

\* one evaluation
EvaluateAt(moment, draw) ==
  /\ TrialOnly
  /\ Len(runs) < MaxEvaluations
  /\ \E sc \in { ScoreOfTrial(trial, libm, draw) } :
       runs' = Append(runs, [score |-> sc, moment |-> moment, draw |-> draw])
  /\ UNCHANGED <<trial, libm>>

IdleTrial ==
  /\ trial = [userId |-> <<49>>, date |-> DaySeq[1], algorithm |-> "basic",
              code |-> <<>>, password |-> <<>>]
  /\ libm = [rounded |-> 50, randomValue |-> 0]
  /\ runs = <<>>

InitTrial ==
  /\ trial \in [userId : UserIds, date : Dates, algorithm : Algorithms,
                code : { <<>>, <<65, 49>> }, password : { <<>>, <<112>> }]
  /\ libm \in [rounded : {50 - MaxSpread, 50, 50 + MaxSpread},
               randomValue : {0, 500, 1000}]
  /\ runs = <<>>

NextTrial == \E moment \in Moments, draw \in Draws : EvaluateAt(moment, draw)

(***************************************************************************)
(* The hidden theme: the unlock message of a score of 100 computed from a  *)
(* bound code, and the flag that remembers it, through binds, unbinds,     *)
(* score recording and the cleaning of expired entries.  JrrpService keeps *)
(* the flag in userData ("service"), CodeStore in its profile file         *)
(* ("store"), read and rewritten by every operation.                       *)
(***************************************************************************)
MaxThemeDays == 2
ThemeUsers == {"a", "b"}
ThemeCodes == {"A", "B"}
ThemeScores == {50, 100}

NoHolder(impl) ==
  [impl |-> impl, code |-> [u \in ThemeUsers |-> ""], flag |-> [u \in ThemeUsers |-> FALSE],
   stamp |-> [u \in ThemeUsers |-> 0]]
NothingSaid == [uid |-> "", score |-> NoScore, unlock |-> FALSE, seenBefore |-> {}]

\* recordUserScore on the holder h: the expired entries are cleaned when
\* the user's own entry is expired; cleanUserData keeps the code and the
\* flag
ThemeRecord(h, u) ==
  LET expired(x) == h.stamp[x] # 0 /\ h.stamp[x] # themeDay
  IN  [h EXCEPT !.stamp = [x \in ThemeUsers |->
                             IF x = u THEN themeDay
                             ELSE IF expired(u) /\ expired(x) THEN 0 ELSE h.stamp[x]]]

\* the jrrp command of JrrpService for a user with a bound code whose
\* score of the day is sc: formatJrrpMessage sets perfect_score and adds
\* the unlock message on a first 100 (saved: saveData could write; when it
\* could not, the answer is the error message and nothing is recorded),
\* and processJrrpCommand records the score
ThemeJrrp(u, sc, saved) ==
  /\ ThemeOnly
  /\ holder.impl = "service"
  /\ holder.code[u] # ""
  /\ LET first == sc = 100 /\ ~holder.flag[u]
         flagged == IF first THEN [holder EXCEPT !.flag[u] = TRUE] ELSE holder
     IN  IF first /\ ~saved
           THEN /\ holder' = flagged
                /\ said' = [uid |-> u, score |-> NoScore, unlock |-> FALSE,
                            seenBefore |-> unlockSeen]
                /\ UNCHANGED unlockSeen
           ELSE /\ holder' = ThemeRecord(flagged, u)
                /\ said' = [uid |-> u, score |-> sc, unlock |-> first,
                            seenBefore |-> unlockSeen]
                /\ unlockSeen' = IF first THEN unlockSeen \cup {u} ELSE unlockSeen
  /\ UNCHANGED themeDay

\* bindIdentificationCode(userId, code) with a well-formed code
ThemeBind(u, c) ==
  /\ ThemeOnly
  /\ holder.impl = "service"
  /\ holder' = [holder EXCEPT !.code[u] = c]
  /\ UNCHANGED <<themeDay, unlockSeen, said>>

\* removeIdentificationCode(userId): the code is deleted and
\* cleanUserData drops the recorded score
ThemeUnbind(u) ==
  /\ ThemeOnly
  /\ holder.impl = "service"
  /\ holder.code[u] # ""
  /\ holder' = [holder EXCEPT !.code[u] = "", !.stamp[u] = 0]
  /\ UNCHANGED <<themeDay, unlockSeen, said>>

\* CodeStore.linkCode(uid, code) with a well-formed code: load, which
\* answers {} when the file cannot be read (loaded), and writeFile,
\* which may fail (written)
ThemeLink(u, c, loaded, written) ==
  /\ ThemeOnly
  /\ holder.impl = "store"
  /\ LET profiles0 == IF loaded THEN holder ELSE NoHolder("store")
     IN  holder' = IF written THEN [profiles0 EXCEPT !.code[u] = c] ELSE holder
  /\ UNCHANGED <<themeDay, unlockSeen, said>>

\* the jrrp.code command of CodeStore for a score sc of the day: load,
\* the score, and on 100 unlock, which loads again (reloaded) and writes
\* (written; the command fails without an answer when it cannot)
ThemeCode(u, sc, loaded, reloaded, written) ==
  /\ ThemeOnly
  /\ holder.impl = "store"
  /\ LET profiles0 == IF loaded THEN holder ELSE NoHolder("store")
         again == IF reloaded THEN holder ELSE NoHolder("store")
         isFirst == sc = 100 /\ ~profiles0.flag[u]
     IN  /\ profiles0.code[u] # ""
         /\ IF sc = 100 /\ ~written
              THEN UNCHANGED <<holder, unlockSeen, said>>
              ELSE /\ holder' = IF sc = 100 THEN [again EXCEPT !.flag[u] = TRUE] ELSE holder
                   /\ said' = [uid |-> u, score |-> sc, unlock |-> isFirst,
                               seenBefore |-> unlockSeen]
                   /\ unlockSeen' = IF isFirst THEN unlockSeen \cup {u} ELSE unlockSeen
  /\ UNCHANGED themeDay

\* midnight
ThemeNextDay ==
  /\ ThemeOnly
  /\ themeDay < MaxThemeDays
  /\ themeDay' = themeDay + 1
  /\ UNCHANGED <<holder, unlockSeen, said>>

IdleTheme ==
  /\ holder = NoHolder("service")
  /\ themeDay = 1
  /\ unlockSeen = {}
  /\ said = NothingSaid

InitTheme ==
  /\ holder \in { NoHolder("service"), NoHolder("store") }
  /\ themeDay = 1
  /\ unlockSeen = {}
  /\ said = NothingSaid

NextTheme ==
  \/ \E u \in ThemeUsers, sc \in ThemeScores, saved \in BOOLEAN : ThemeJrrp(u, sc, saved)
  \/ \E u \in ThemeUsers, c \in ThemeCodes : ThemeBind(u, c)
  \/ \E u \in ThemeUsers : ThemeUnbind(u)
  \/ \E u \in ThemeUsers, c \in ThemeCodes, loaded \in BOOLEAN, written \in BOOLEAN :
       ThemeLink(u, c, loaded, written)
  \/ \E u \in ThemeUsers, sc \in ThemeScores, loaded \in BOOLEAN, reloaded \in BOOLEAN,
        written \in BOOLEAN : ThemeCode(u, sc, loaded, reloaded, written)
  \/ ThemeNextDay

(***************************************************************************)
(* The confirmation of a score of 0 computed from an identification code:  *)
(* processJrrpCommand with formatJrrpMessage and handleZeroConfirmation    *)
(* ("service": the commands jrrp and jrrp.date), and the jrrp.code command *)
(* of CodeStore ("store": plain, with -d <date> and with -s <score>).      *)
(***************************************************************************)
\* what the user answers to a prompt: y, Y, yes, YES, n, " y", and no
\* answer before the timeout (the empty string)
ZeroReplies ==
  { <<121>>, <<89>>, <<121, 101, 115>>, <<89, 69, 83>>, <<110>>, <<32, 121>>, <<>> }
ZeroScores == {0, 50, 100}

NotAsking == [impl |-> "", cmd |-> "", score |-> NoScore, reply |-> <<>>]

\* handleZeroConfirmation followed by the rest of processJrrpCommand:
\* the messages sent and the score of the result
handleZeroConfirmation(response, promptFails) ==
  IF promptFails THEN [sent |-> << "zero_prompt", "error" >>, score |-> NoScore]
  ELSE IF response = <<>> \/ Lower(response) # <<121>>
    THEN [sent |-> << "zero_prompt", "cancel" >>, score |-> NoScore]
  ELSE [sent |-> << "zero_prompt", "result" >>, score |-> 0]

\* processJrrpCommand(session, jrrpService, config, dateForCalculation,
\* isDateCommand) for a user with a bound code whose score of the date is
\* sc; the date of jrrp.date may be today (isCurrentDay)
ProcessJrrpCommand(isDateCommand, isCurrentDay, sc, response, promptFails) ==
  /\ ZeroOnly
  /\ isDateCommand \/ isCurrentDay
  /\ LET fortuneResult == IF sc = 0 THEN handleZeroConfirmation(response, promptFails)
                          ELSE [sent |-> << "result" >>, score |-> sc]
     IN  /\ sent' = fortuneResult.sent
         /\ kept' = IF isCurrentDay /\ ~isDateCommand /\ fortuneResult.score >= 0
                      THEN fortuneResult.score ELSE NoScore
  /\ asking' = [impl |-> "service", cmd |-> IF isDateCommand THEN "jrrp.date" ELSE "jrrp",
                score |-> sc, reply |-> response]

\* the jrrp.code command for a user with a bound code; sc is the score
\* of the date asked about (option "d"), the score searched for and
\* found (option "s"), or the score of today
JrrpCode(option, sc, response, promptFails) ==
  /\ ZeroOnly
  /\ sent' = IF option \in {"d", "s"} THEN << "result" >>
             ELSE IF sc # 0 THEN << "result" >>
             ELSE IF promptFails THEN << "zeroWarning" >>
             ELSE IF response = <<>> \/ Lower(response) \notin { <<121>>, <<121, 101, 115>> }
               THEN << "zeroWarning" >>
             ELSE << "zeroWarning", "result" >>
  /\ kept' = NoScore
  /\ asking' = [impl |-> "store",
                cmd |-> IF option = "" THEN "jrrp.code" ELSE "jrrp.code -" \o option,
                score |-> sc, reply |-> response]

IdleZero ==
  /\ asking = NotAsking
  /\ sent = <<>>
  /\ kept = NoScore

NextZero ==
  \/ \E isDateCommand \in BOOLEAN, isCurrentDay \in BOOLEAN, sc \in ZeroScores,
        response \in ZeroReplies, promptFails \in BOOLEAN :
       ProcessJrrpCommand(isDateCommand, isCurrentDay, sc, response, promptFails)
  \/ \E option \in {"", "d", "s"}, sc \in ZeroScores, response \in ZeroReplies,
        promptFails \in BOOLEAN :
       JrrpCode(option, sc, response, promptFails)

(***************************************************************************)
(* MsgBuilder: the message caches the constructor fills and the message    *)
(* getMessage selects for a score and a date.  Conditions are strings of   *)
(* UTF-16 code units; the bounds of a range are numbers in tenths.         *)
(***************************************************************************)
\* /^\d{1,2}-\d{1,2}$/.test(condition)
IsDateCondition(s) ==
  LET parts == Split(s, <<>>)
  IN  /\ Len(parts) = 2
      /\ \A k \in 1..2 : Len(parts[k]) \in 1..2 /\ AllDigits(parts[k])

\* /^\d+$/.test(condition)
IsScoreCondition(s) == s # <<>> /\ AllDigits(s)

\* parseInt(condition, 10) of a string of digits
parseInt(s) == DigitsValue(s, 0)

\* "msgs = map.get(key) || []; msgs.push(msg); map.set(key, msgs)"
Pushed(map, key, msg) ==
  Put(map, key, IF key \in DOMAIN map THEN Append(map[key], msg) ELSE <<msg>>)

\* the loop of initializeCache over specialMessages, from message i on
RECURSIVE FillSpecial(_, _, _)
FillSpecial(msgs, i, maps) ==
  IF i > Len(msgs) THEN maps
  ELSE LET condition == msgs[i].condition
       IN  FillSpecial(msgs, i + 1,
             IF IsDateCondition(condition)
               THEN [maps EXCEPT !.date = Pushed(@, condition, msgs[i])]
             ELSE IF IsScoreCondition(condition)
               THEN [maps EXCEPT !.score = Pushed(@, parseInt(condition), msgs[i])]
             ELSE maps)

\* "for (let i = min; i <= max; i++) this.rangesCache[i].push(range)", i in
\* tenths: rangesCache[i] is undefined when i is no whole number, and push
\* on it is a TypeError
RECURSIVE PushRange(_, _, _, _)
PushRange(cache, range, i, max) ==
  IF i > max THEN [ok |-> TRUE, cache |-> cache]
  ELSE IF i % 10 # 0 THEN [ok |-> FALSE, cache |-> cache]
  ELSE PushRange([cache EXCEPT ![i \div 10] = Append(@, range)], range, i + 10, max)

\* the loop of initializeCache over rangeMessages, from range i on
RECURSIVE FillRanges(_, _, _)
FillRanges(rangeMessages, i, cache) ==
  IF i > Len(rangeMessages) THEN [ok |-> TRUE, cache |-> cache]
  ELSE LET range == rangeMessages[i]
           pushed == PushRange(cache, range, Max(0, range.min), Min(1000, range.max))
       IN  IF pushed.ok THEN FillRanges(rangeMessages, i + 1, pushed.cache) ELSE pushed

\* new MsgBuilder(cfg): the instance, or no instance when initializeCache
\* throws
initializeCache(cfg) ==
  LET maps == IF cfg.specialMessages # <<>> /\ cfg.enableSpecial
                THEN FillSpecial(cfg.specialMessages, 1, [date |-> <<>>, score |-> <<>>])
                ELSE [date |-> <<>>, score |-> <<>>]
      filled == IF cfg.rangeMessages # <<>> /\ cfg.enableRange
                  THEN FillRanges(cfg.rangeMessages, 1, [i \in 0..100 |-> <<>>])
                  ELSE [ok |-> TRUE, cache |-> <<>>]
  IN  [config |-> cfg,
       built |-> filled.ok,
       dateSpecialMsgsMap |-> maps.date,
       scoreSpecialMsgsMap |-> maps.score,
       rangesCache |-> filled.cache]

\* `${new Date().getMonth() + 1}-${new Date().getDate()}` on <<month, day>>
todayStr(day) == Decimal(day[1]) \o <<45>> \o Decimal(day[2])

\* msgs[Math.random() * msgs.length | 0].message: any of them
AnyMessage(msgs) == { msgs[i].message : i \in 1..Len(msgs) }

\* getMessage with the special message of the score before that of the date
getMessageScoreFirst(b, sc, date) ==
  LET dateMessages == IF date \in DOMAIN b.dateSpecialMsgsMap THEN b.dateSpecialMsgsMap[date] ELSE <<>>
      scoreMessages == IF sc \in DOMAIN b.scoreSpecialMsgsMap THEN b.scoreSpecialMsgsMap[sc] ELSE <<>>
      rangeMessages == IF sc \in DOMAIN b.rangesCache THEN b.rangesCache[sc] ELSE <<>>
  IN  IF b.config.enableSpecial /\ scoreMessages # <<>> THEN AnyMessage(scoreMessages)
      ELSE IF b.config.enableSpecial /\ dateMessages # <<>> THEN AnyMessage(dateMessages)
      ELSE IF b.config.enableRange /\ sc >= 0 /\ sc <= 100 /\ rangeMessages # <<>>
        THEN AnyMessage(rangeMessages)
      ELSE { "" }

\* MsgBuilder.getMessage(score, date): the texts it can return
getMessage(b, sc, date) ==
  LET dateMessages == IF date \in DOMAIN b.dateSpecialMsgsMap THEN b.dateSpecialMsgsMap[date] ELSE <<>>
      scoreMessages == IF sc \in DOMAIN b.scoreSpecialMsgsMap THEN b.scoreSpecialMsgsMap[sc] ELSE <<>>
      rangeMessages == IF sc \in DOMAIN b.rangesCache THEN b.rangesCache[sc] ELSE <<>>
  IN  IF b.config.enableSpecial /\ dateMessages # <<>> THEN AnyMessage(dateMessages)
      ELSE IF b.config.enableSpecial /\ scoreMessages # <<>> THEN AnyMessage(scoreMessages)
      ELSE IF b.config.enableRange /\ sc >= 0 /\ sc <= 100 /\ rangeMessages # <<>>
        THEN AnyMessage(rangeMessages)
      ELSE { "" }

\* the special messages configurations are made of: two for April 1, two
\* for the score 50, one of them written 050
SpecialEntries ==
  { [condition |-> todayStr(<<4, 1>>), message |-> "d1"],
    [condition |-> todayStr(<<4, 1>>), message |-> "d2"],
    [condition |-> Decimal(50), message |-> "s1"],
    [condition |-> <<48>> \o Decimal(50), message |-> "s2"] }

\* the range messages configurations are made of; 50.5 and 49.5 are bounds
\* the configuration schema admits
RangeEntries ==
  { [min |-> 0, max |-> 500, message |-> "r1"],
    [min |-> 500, max |-> 1000, message |-> "r2"],
    [min |-> 505, max |-> 1000, message |-> "r3"],
    [min |-> 0, max |-> 495, message |-> "r4"] }

\* the lists of at most n elements of S
RECURSIVE ListsOf(_, _)
ListsOf(S, n) ==
  IF n = 0 THEN { <<>> }
  ELSE ListsOf(S, n - 1) \cup { Append(l, x) : l \in { k \in ListsOf(S, n - 1) : Len(k) = n - 1 }, x \in S }

MsgConfigs ==
  [specialMessages : ListsOf(SpecialEntries, MaxSpecialMessages),
   rangeMessages : ListsOf(RangeEntries, MaxRangeMessages),
   enableSpecial : BOOLEAN,
   enableRange : BOOLEAN]

MsgDays == { <<4, 1>>, <<4, 2>> }
MsgScores == { 49, 50, 100 }

NotPicked == [asked |-> FALSE, score |-> NoScore, day |-> <<1, 1>>, text |-> ""]

\* no MsgBuilder: the plugin is not configured with one
NoBuilder ==
  [config |-> [specialMessages |-> <<>>, rangeMessages |-> <<>>,
               enableSpecial |-> FALSE, enableRange |-> FALSE],
   built |-> FALSE,
   dateSpecialMsgsMap |-> <<>>,
   scoreSpecialMsgsMap |-> <<>>,
   rangesCache |-> <<>>]

\* build(score, ...) on the day asks getMessage(score, todayStr)
GetMessage(sc, day) ==
  /\ MessageOnly
  /\ builder.built
  /\ \E text \in getMessage(builder, sc, todayStr(day)) :
       picked' = [asked |-> TRUE, score |-> sc, day |-> day, text |-> text]
  /\ UNCHANGED builder

IdleMessage ==
  /\ builder = NoBuilder
  /\ picked = NotPicked

\* apply() has constructed the MsgBuilder of some configuration
InitMessage ==
  /\ \E cfg \in MsgConfigs : builder = initializeCache(cfg)
  /\ picked = NotPicked

NextMessage == \E sc \in MsgScores, day \in MsgDays : GetMessage(sc, day)

(***************************************************************************)
(* FortuneStore.clearData.  The call awaits database.get and then          *)
(* database.remove; the database serves other callers in between, such as  *)
(* the save of a jrrp command.  "" stands for an argument that is absent   *)
(* or empty: both are falsy.                                               *)
(***************************************************************************)
ClearUsers == {"a", "b"}
ClearDates == {"2025-04-01", "2025-04-02"}
ClearRecords == [userId : ClearUsers, date : ClearDates]

\* "if (userId) query.userId = userId; if (date) query.date = date": the
\* records the query selects
Selected(records, userId, date) ==
  { r \in records : (userId = "" \/ r.userId = userId) /\ (date = "" \/ r.date = date) }

NotClearing ==
  [pc |-> "idle", userId |-> "", date |-> "", found |-> 0, count |-> NoScore,
   before |-> {}, after |-> {}]

\* clearData(userId, date) up to its first await: it returns 0 without a
\* filter and when database.get throws, else it holds the records of get
clearData(userId, date, getFails) ==
  /\ ClearOnly
  /\ clearing.pc \in {"idle", "done"}
  /\ clearing' =
       IF userId = "" /\ date = ""
         THEN [NotClearing EXCEPT !.pc = "done", !.count = 0,
                                  !.before = entries, !.after = entries]
       ELSE IF getFails
         THEN [NotClearing EXCEPT !.pc = "done", !.userId = userId, !.date = date,
                                  !.count = 0, !.before = entries, !.after = entries]
       ELSE [NotClearing EXCEPT !.pc = "got", !.userId = userId, !.date = date,
                                !.found = Cardinality(Selected(entries, userId, date))]
  /\ UNCHANGED entries

\* "await this.ctx.database.remove('jrrp', query); return records.length",
\* or "catch { return 0 }"
ClearRemove(removeFails) ==
  /\ ClearOnly
  /\ clearing.pc = "got"
  /\ entries' = IF removeFails THEN entries
              ELSE entries \ Selected(entries, clearing.userId, clearing.date)
  /\ clearing' = [clearing EXCEPT !.pc = "done",
                                  !.count = IF removeFails THEN 0 ELSE clearing.found,
                                  !.before = entries,
                                  !.after = entries']

\* store.save of a jrrp command: upsert on the key (userId, date)
Save(userId, date) ==
  /\ ClearOnly
  /\ entries' = entries \cup { [userId |-> userId, date |-> date] }
  /\ UNCHANGED clearing

IdleClear ==
  /\ entries = {}
  /\ clearing = NotClearing

InitClear ==
  /\ entries \in SUBSET ClearRecords
  /\ clearing = NotClearing

NextClear ==
  \/ \E userId \in ClearUsers \cup {""}, date \in ClearDates \cup {""}, getFails \in BOOLEAN :
       clearData(userId, date, getFails)
  \/ \E removeFails \in BOOLEAN : ClearRemove(removeFails)
  \/ \E userId \in ClearUsers, date \in ClearDates : Save(userId, date)

(***************************************************************************)
(* Two jrrp commands of the same user on the same day with the algorithm   *)
(* randomorg, each a chain of awaits: in JrrpService ("service") the       *)
(* lookup in userData, the request, session.send and then recordUserScore; *)
(* in the jrrp action over FortuneStore ("store") store.getFortune, the    *)
(* request, store.save and the answer.                                     *)
(***************************************************************************)
Commands == {1, 2}
\* what the request resolves to: a number of Random.org, or null
OverlapOutcomes ==
  { [null |-> FALSE, n |-> 10], [null |-> FALSE, n |-> 90], [null |-> TRUE, n |-> 0] }
\* the score of the local fallback for the user and the day
LocalFallback == 73

NotStarted == [pc |-> "idle", cached |-> FALSE, score |-> NoScore, shown |-> NoScore]

\* the score getRandomOrgScoreLocal / calc.calculate makes of the answer
ScoreOfOutcome(outcome) == IF outcome.null THEN LocalFallback ELSE outcome.n

\* the command starts.  service: getRandomOrgScoreLocal returns the score
\* recorded today or sends the request; store: store.getFortune is awaited
Begin(p) ==
  /\ OverlapOnly
  /\ cmds[p].pc = "idle"
  /\ IF overlap.impl = "store"
       THEN /\ cmds' = [cmds EXCEPT ![p].pc = "reading"]
            /\ UNCHANGED overlap
     ELSE IF overlap.stored # NoScore
       THEN /\ cmds' = [cmds EXCEPT ![p].pc = "have", ![p].cached = TRUE,
                                    ![p].score = overlap.stored]
            /\ UNCHANGED overlap
     ELSE /\ cmds' = [cmds EXCEPT ![p].pc = "fetching"]
          /\ overlap' = [overlap EXCEPT !.requests = @ + 1]

\* store.getFortune resolves: the cached record, or calc.calculate sends
\* the request
GetFortune(p) ==
  /\ OverlapOnly
  /\ cmds[p].pc = "reading"
  /\ IF overlap.stored # NoScore
       THEN /\ cmds' = [cmds EXCEPT ![p].pc = "have", ![p].cached = TRUE,
                                    ![p].score = overlap.stored]
            /\ UNCHANGED overlap
       ELSE /\ cmds' = [cmds EXCEPT ![p].pc = "fetching"]
            /\ overlap' = [overlap EXCEPT !.requests = @ + 1]

\* the request resolves.  store: "if (!cached) store.save(...)" follows at
\* once
Receive(p, outcome) ==
  /\ OverlapOnly
  /\ cmds[p].pc = "fetching"
  /\ cmds' = [cmds EXCEPT ![p].pc = "have", ![p].score = ScoreOfOutcome(outcome)]
  /\ overlap' = IF overlap.impl = "store"
                  THEN [overlap EXCEPT !.stored = ScoreOfOutcome(outcome)]
                  ELSE overlap

\* the answer is sent; the command of the store ends here
Show(p) ==
  /\ OverlapOnly
  /\ cmds[p].pc = "have"
  /\ cmds' = [cmds EXCEPT ![p].pc = IF overlap.impl = "store" THEN "done" ELSE "sent",
                          ![p].shown = cmds[p].score]
  /\ UNCHANGED overlap

\* processJrrpCommand: jrrpService.recordUserScore after session.send
RecordScore(p) ==
  /\ OverlapOnly
  /\ cmds[p].pc = "sent"
  /\ cmds' = [cmds EXCEPT ![p].pc = "done"]
  /\ overlap' = [overlap EXCEPT !.stored = cmds[p].score]

IdleOverlap ==
  /\ overlap = [impl |-> "", stored |-> NoScore, requests |-> 0]
  /\ cmds = [p \in Commands |-> NotStarted]

\* the user has no score for today yet, or has one recorded
InitOverlap ==
  /\ overlap \in [impl : {"service", "store"}, stored : {NoScore, 10, 90}, requests : {0}]
  /\ cmds = [p \in Commands |-> NotStarted]

NextOverlap ==
  \E p \in Commands :
    \/ Begin(p)
    \/ GetFortune(p)
    \/ \E outcome \in OverlapOutcomes : Receive(p, outcome)
    \/ Show(p)
    \/ RecordScore(p)

\* the later components at rest, but for the one named
IdleBut(g) ==
  /\ (g = "board" \/ IdleBoard)
  /\ (g = "trial" \/ IdleTrial)
  /\ (g = "theme" \/ IdleTheme)
  /\ (g = "zero" \/ IdleZero)
  /\ (g = "message" \/ IdleMessage)
  /\ (g = "clear" \/ IdleClear)
  /\ (g = "overlap" \/ IdleOverlap)

\* the components that take part in no run of the ones above
IdleLater == IdleCode /\ IdleRange /\ IdleDisplay /\ IdleBut("")

\* no jrrp command answered yet
NotShown == [cmd |-> "", date |-> DaySeq[1], message |-> FALSE, score |-> NoScore,
             algorithm |-> "", codeScore |-> NoScore]

IdleCommand ==
  /\ setup = [algorithm |-> "basic", calCode |-> FALSE, bound |-> FALSE]
  /\ shown = NotShown

\* the other components before anything is asked of them
IdleRest == IdleCommand /\ IdleHash /\ IdleLater

\* the earlier components at rest
IdleEarlier ==
  /\ InitSynth /\ IdleScore /\ IdleFetch /\ IdleService /\ IdleCommand /\ IdleHash
  /\ IdleCode /\ IdleRange /\ IdleDisplay

InitSynthOnly == InitSynth /\ IdleScore /\ IdleFetch /\ IdleService /\ IdleRest

SpecSynth == InitSynthOnly /\ [][NextSynth]_vars

(***************************************************************************)
(* The synthesizer on inputs outside its documented domain.                *)
(***************************************************************************)
OutTargets == ((0 - MaxOut) .. (0 - 1)) \cup (101 .. (100 + MaxOut))
OutBases == {0} \cup (10 .. (9 + MaxOut))
InDomain(target, baseNumber) == target \in Targets /\ baseNumber \in Bases

EffectiveBase(foolConfig) ==
  IF foolConfig.baseNumber = <<>> THEN 6 ELSE foolConfig.baseNumber[1]

NextRange ==
  \/ /\ CanCall
     /\ \E fn \in Generators, target \in Targets \cup OutTargets,
           baseNumber \in Bases \cup OutBases :
          /\ ~InDomain(target, baseNumber)
          /\ Invoke(fn, target, baseNumber)
  \/ /\ CanCall
     /\ \E sc \in Targets \cup OutTargets, date \in Days,
           foolConfig \in FoolConfigs(Bases \cup OutBases), fn \in Generators :
          /\ ~InDomain(sc, EffectiveBase(foolConfig))
          /\ FormatScore(sc, date, foolConfig, fn)
  \/ Enter
  \/ Return
  \/ Overflow
  \/ Finish

SpecRange == InitSynthOnly /\ [][NextRange]_vars

(***************************************************************************)
(* Properties of the synthesizer.                                          *)
(***************************************************************************)
Returned == status = "returned" /\ call.fn \in Generators

\* C1: for every target in 0..100 and base in 1..9, the expression any of
\* the three generators returns (called directly or through formatScore)
\* evaluates, with standard operator precedence, to exactly the target.
C1_EvaluatesToTarget ==
  (Returned /\ InDomain(call.target, call.base))
    => (Evaluate(result).ok /\ Evaluate(result).v = call.target)

\* C2: synthesis is total; in particular no generator is ever called again
\* on the target of its caller while the caller has completed no other
\* call (so the cache is what it was when the caller was entered).
C2_NoRepeatedCall ==
  \A i \in 2..Len(stack) :
    ~(/\ stack[i].fn = stack[i - 1].fn
      /\ stack[i].target = stack[i - 1].target
      /\ stack[i - 1].nret = 0)

Operators == {"+", "-", "*", "/", "<<", ">>", "&", "|", "^"}
\* the literals whose digits are all the base digit
BaseLiterals(b) == { NumStr(b), NumStr(11 * b), NumStr(111 * b) }

\* C3: a returned expression consists of the nine operators, parentheses
\* and literals that are occurrences of the base digit only.
C3_OnlyBaseDigit ==
  (Returned /\ call.via = "direct" /\ InDomain(call.target, call.base))
    => \A i \in 1..Len(result) :
         result[i] \in Operators \cup {"(", ")"} \cup BaseLiterals(call.base)

NextScore == CalculateScore

InitScoreOnly == InitScore /\ InitSynth /\ IdleFetch /\ IdleService /\ IdleRest

SpecScore == InitScoreOnly /\ [][NextScore]_vars

\* C5: every local scoring path (BASIC, LINEAR, GAUSSIAN, identification
\* code) returns an integer between 0 and 100, whatever the seed.
C5_ScoreInRange == score # NoScore => score \in 0..100

\* the linear path has scored a seed whose hash wrapped around 2^32
C5_Witness ==
  /\ score # NoScore
  /\ query.algorithm = "linear"
  /\ query.code = <<>>
  /\ Len(UserDateSeed(query.userId, query.date)) >= 12
  /\ hashCode(UserDateSeed(query.userId, query.date)).hi >= 32768

(***************************************************************************)
(* The Random.org adapter on its own.                                      *)
(***************************************************************************)
NextFetch ==
  \/ \E v \in Variants, hasKey \in BOOLEAN : StartFetch(v, hasKey)
  \/ Tick
  \/ TimerFires
  \/ \E ok \in BOOLEAN : HeadersArrive(ok)
  \/ FetchFails
  \/ \E p \in Payloads : BodyArrives(p)

InitFetchOnly == IdleFetch /\ InitSynth /\ IdleScore /\ IdleService /\ IdleRest

SpecFetch == InitFetchOnly /\ [][NextFetch]_vars

\* C8: a fetch completes no later than its hard timeout: as long as the
\* exchange is in progress (up to the parsed payload) the abort timer is
\* armed and not overdue, a timer that fires aborts the request, and no
\* exit path leaves the timer armed.
C8_HardTimeout ==
  /\ Awaiting => (timer = "armed" /\ clock <= Timeout(variant))
  /\ fpc = "done" => timer # "armed"

\* C9: one request and no retry, nothing raised, and the value returned is
\* null or an integer between 0 and 100.
C9_IntegerOrUnavailable ==
  fpc = "done" =>
    /\ requests <= 1
    /\ fetched.kind \in {"null", "value"}
    /\ fetched.kind = "value" => (fetched.v.type = "int" /\ fetched.v.n \in 0..100)

(***************************************************************************)
(* The jrrp command in remote mode.                                        *)
(***************************************************************************)
\* the user who sends the commands
Callers == { <<49>> }

NextService ==
  \/ \E u \in Callers, r1 \in RemoteOutcomes, r2 \in RemoteOutcomes, confirm \in BOOLEAN :
       JrrpService(u, r1, r2, confirm)
  \/ \E u \in Callers : Bind(u)
  \/ \E u \in Callers : Unbind(u)
  \/ \E u \in Callers, r \in RemoteOutcomes, saved \in BOOLEAN : JrrpFortune(u, r, saved)
  \/ NextDay

InitServiceOnly == InitService /\ InitSynth /\ IdleScore /\ IdleFetch /\ IdleRest

SpecService == InitServiceOnly /\ [][NextService]_vars

\* the remote service gave no usable score in the command answered last:
\* no API key, a failed fetch, or a payload with a value outside 0..100
Unavailable == reply.remote \in {"nokey", "failed", "malformed"}

\* C6: when the remote fetch is Unavailable the same call yields the
\* Modulo score abs(hash32(seed)) mod 101 of the seed built from the user
\* id and the current date.
C6_FallbackIsModulo ==
  (Unavailable /\ reply.score # NoScore)
    => reply.score = BasicScore(UserDateSeed(reply.userId, DaySeq[reply.day]))

\* C7: the algorithm reported and stored with the score is the remote
\* algorithm only if the score came from the remote service; after an
\* Unavailable fetch it is the local fallback algorithm.
C7_AlgorithmIdentity ==
  (Unavailable /\ reply.score # NoScore)
    => (reply.algorithm # "randomorg" /\ reply.stored # "randomorg")

\* C10: once a score is recorded for a user on a day, every later jrrp
\* query of that user on that day returns that score without a request.
C10_SameScoreNoRequest ==
  (reply.score # NoScore /\ reply.prior # NoScore)
    => (reply.score = reply.prior /\ reply.requests = 0)

(***************************************************************************)
(* The jrrp and jrrp.date commands of the JrrpService version under any    *)
(* configured algorithm: which computation formatJrrpMessage takes the     *)
(* score from.                                                             *)
(***************************************************************************)
ConfiguredAlgorithms == {"basic", "gaussian", "linear", "randomorg"}

\* formatJrrpMessage(session, dateForCalculation, skipConfirm, isDateCommand)
\* up to the zero-score test.  cfg is the deployment and the user's record,
\* r what the Random.org fetch returns if it is called, codeScore the value
\* of calculateJrrpWithCode(calCode, date, config.calCode), rounded the
\* Math.round(z * 15 + 50) of the GAUSSIAN case.
formatJrrpMessage(cfg, u, date, skipConfirm, isDateCommand, r, codeScore, rounded) ==
  LET hasCode == cfg.calCode /\ cfg.bound
      isCurrentDay == date = DaySeq[today]
      remote == [score |-> getRandomOrgScoreLocal(u, NoEntry, r).score,
                 algorithm |-> "randomorg"]
      byCode == [score |-> codeScore, algorithm |-> "calCode"]
      none == [score |-> NoScore, algorithm |-> ""]
      local ==
        [score |-> CASE cfg.algorithm = "gaussian" -> GaussianScore(rounded)
                     [] cfg.algorithm = "linear"   -> LinearScore(UserDateSeed(u, date))
                     [] OTHER                      -> BasicScore(UserDateSeed(u, date)),
         algorithm |-> cfg.algorithm]
      fortuneResult ==
        IF cfg.algorithm = "randomorg"
          THEN IF hasCode
                 THEN IF isCurrentDay /\ ~isDateCommand THEN remote ELSE byCode
               ELSE IF isCurrentDay /\ ~isDateCommand THEN remote
               ELSE none
          ELSE IF hasCode THEN byCode ELSE local
  IN  IF fortuneResult.score = NoScore
        THEN [message |-> FALSE, score |-> NoScore, algorithm |-> ""]
      ELSE IF ~skipConfirm /\ fortuneResult.score = 0 /\ hasCode
        THEN [message |-> FALSE, score |-> 0, algorithm |-> fortuneResult.algorithm]
      ELSE [message |-> TRUE, score |-> fortuneResult.score,
            algorithm |-> fortuneResult.algorithm]

\* processJrrpCommand for jrrp (isDateCommand FALSE, the date being today)
\* and jrrp.date (isDateCommand TRUE): formatJrrpMessage and, on a zero
\* score of a user with a code, handleZeroConfirmation, which calls
\* formatJrrpMessage(session, dateForCalculation, true) when the user
\* answers y
JrrpCommand(u, date, isDateCommand, confirm, r, randomValue, rounded) ==
  /\ CommandOnly
  /\ shown.cmd = ""
  /\ isDateCommand \/ date = DaySeq[today]
  /\ LET codeScore == calculateJrrpWithCode(randomValue)
         first == formatJrrpMessage(setup, u, date, FALSE, isDateCommand,
                                    r, codeScore, rounded)
         zero == ~first.message /\ first.score = 0 /\ setup.calCode
         second == formatJrrpMessage(setup, u, date, TRUE, FALSE, r, codeScore, rounded)
         fortuneResult ==
           IF ~zero THEN first
           ELSE IF confirm THEN second
           ELSE [message |-> FALSE, score |-> NoScore, algorithm |-> ""]
     IN  shown' = [cmd |-> IF isDateCommand THEN "jrrp.date" ELSE "jrrp",
                   date |-> date,
                   message |-> fortuneResult.message,
                   score |-> fortuneResult.score,
                   algorithm |-> fortuneResult.algorithm,
                   codeScore |-> codeScore]
  /\ UNCHANGED setup

InitCommand ==
  /\ setup \in [algorithm : ConfiguredAlgorithms, calCode : BOOLEAN, bound : BOOLEAN]
  /\ shown = NotShown

NextCommand ==
  \E u \in Callers, date \in Dates, isDateCommand \in BOOLEAN, confirm \in BOOLEAN,
     r \in RemoteOutcomes, randomValue \in {0, 4, 5, 500, 969, 970, 1000},
     rounded \in {0 - 5, 0, 50, 100, 105} :
    JrrpCommand(u, date, isDateCommand, confirm, r, randomValue, rounded)

InitCommandOnly ==
  /\ InitCommand /\ InitSynth /\ IdleScore /\ IdleFetch /\ IdleService /\ IdleHash
  /\ IdleLater

SpecCommand == InitCommandOnly /\ [][NextCommand]_vars

\* C11: a user with a bound identification code (the calculation key being
\* configured) is shown the identification-code score, under every
\* configured algorithm, by jrrp and by jrrp.date; a user without one is
\* shown the score of the configured algorithm.
C11_CodeScoreShown ==
  shown.message =>
    IF setup.calCode /\ setup.bound
      THEN shown.algorithm = "calCode" /\ shown.score = shown.codeScore
      ELSE shown.algorithm = setup.algorithm

(***************************************************************************)
(* One ExpressionGenerator instance over several calls: the cache          *)
(* survives a direct call of a generator and is cleared by formatScore.    *)
(***************************************************************************)
\* a call is over: the instance is at rest, its cache as the call left it
Rest ==
  /\ SynthOnly
  /\ status \in {"returned", "thrown"}
  /\ status' = "idle"
  /\ result' = <<>>
  /\ served' = {}
  /\ UNCHANGED <<digitExpressions, expressionsInitialized, stack, call, origin>>

CacheTargets == {12}
CacheBases == {1, 6}
CacheGenerators == {"mixed"}
CacheFoolConfigs ==
  { c \in FoolConfigs(CacheBases) :
      c.type = "enabled" /\ c.date = <<>> /\ c.baseNumber # <<>> }

NextCache ==
  \/ /\ CanCall
     /\ \E fn \in CacheGenerators, target \in CacheTargets, baseNumber \in CacheBases :
          Invoke(fn, target, baseNumber)
  \/ /\ CanCall
     /\ \E sc \in CacheTargets, date \in Days, foolConfig \in CacheFoolConfigs,
           fn \in CacheGenerators :
          FormatScore(sc, date, foolConfig, fn)
  \/ Enter
  \/ Return
  \/ Overflow
  \/ Finish
  \/ Rest

SpecCache == InitSynthOnly /\ [][NextCache]_vars

\* C12: after any sequence of synthesis calls and cache clears on one
\* instance, every cache slot holds at most 3 expressions.
C12_SlotAtMostThree ==
  \A n \in DOMAIN digitExpressions : Len(digitExpressions[n]) <= 3

\* a call has returned a newly generated expression for a target whose
\* slot was full: the expression was not added
C12_Witness ==
  /\ Returned
  /\ call.target \in DOMAIN digitExpressions
  /\ Len(digitExpressions[call.target]) = 3
  /\ served = {}
  /\ result \notin Entries(digitExpressions, call.target)

\* C13: when a generator (decimal, factorization or mixed) returns an
\* expression it has newly generated for a target above 10 whose slot held
\* fewer than 3 entries, the expression is in the slot of the target.
C13_NewExpressionCached ==
  (/\ Returned
   /\ InDomain(call.target, call.base)
   /\ call.target > 10
   /\ Len(result) > 1
   /\ served = {})
    => /\ call.target \in DOMAIN digitExpressions
       /\ result \in Entries(digitExpressions, call.target)

\* C14: an expression returned for a request (target, b2) contains no
\* cache entry that was stored by a call with another base.
C14_NoCrossBaseEntry ==
  status \in {"running", "returned"} => \A b \in served : b = call.base

(***************************************************************************)
(* The hash functions on their own.                                        *)
(***************************************************************************)
InitHashOnly ==
  /\ InitHash /\ InitSynth /\ IdleScore /\ IdleFetch /\ IdleService /\ IdleCommand
  /\ IdleLater

SpecHash == InitHashOnly /\ [][NextHash]_vars

\* acc = (acc * 33 + charCode) wrapped modulo 2^32
Wrap33(h, c) ==
  LET l == 33 * h.lo + c
  IN  [lo |-> l % 65536, hi |-> (33 * h.hi + l \div 65536) % 65536]

RECURSIVE Wrap33Fold(_, _, _)
Wrap33Fold(h, str, n) ==
  IF n = 0 THEN h ELSE Wrap33(Wrap33Fold(h, str, n - 1), str[n])

\* C15: hashCode is total and never throws; after every character its
\* accumulator is the 32-bit number (acc * 33 + charCode) mod 2^32 of the
\* accumulator before, and the empty string hashes to 5381.
C15_Hash32Wraps ==
  hrun.fn = "hashCode" =>
    /\ acc32.hi \in 0..65535 /\ acc32.lo \in 0..65535
    /\ acc32 = Wrap33Fold([hi |-> 0, lo |-> 5381], hrun.str, hrun.pos)
    /\ hout # NoHash => hout[1] = acc32
    /\ (hout # NoHash /\ hrun.str = <<>>) => hout[1] = [hi |-> 0, lo |-> 5381]

\* hashCode has returned for a string in whose last round
\* ((hash << 5) + hash) + charCode lay outside the 32-bit range before
\* hash >>> 0
C15_Witness ==
  /\ hrun.fn = "hashCode"
  /\ hout # NoHash
  /\ Len(hrun.str) = MaxHashLen
  /\ HashSum(hashCode(SubSeq(hrun.str, 1, MaxHashLen - 1)),
             hrun.str[MaxHashLen]).hi \notin 0..65535

Limb(x) == x \in 0..65535

\* the BigInt a is a number in [0, 2^64)
Fits64(a) == \A i \in 1..Len(a) : Limb(a[i]) /\ (i > 4 => a[i] = 0)

\* C16: getHash folds acc = ((acc << 5) XOR acc XOR charCode) mod 2^64 from
\* 5381 and returns acc XOR 0xa98f501bc684032f, a number in [0, 2^64); the
\* merged hash h1 div 3 + h2 div 3 does not exceed 2^64 - 1.
C16_Hash64InRange ==
  /\ hrun.fn \in {"getHash", "calculateJrrpWithCode"} =>
       /\ Fits64(acc64)
       /\ hrun.pos = 0 => acc64 = << 5381, 0, 0, 0 >>
  /\ (hrun.fn = "getHash" /\ hout # NoHash) =>
       /\ Fits64(hout[1])
       /\ \A i \in 1..4 : hout[1][i] = BitXor(acc64[i], Salt[i])
  /\ codeCalc.score # NoScore =>
       /\ Fits64(codeCalc.hash1) /\ Fits64(codeCalc.hash2)
       /\ Fits64(codeCalc.mergedHash)

\* calculateJrrpWithCode has merged two hashes, and the last round of the
\* second one pushed bits beyond bit 63, which the mask dropped
C16_Witness ==
  /\ hrun.fn = "calculateJrrpWithCode"
  /\ hrun.phase = 3
  /\ codeCalc.score # NoScore
  /\ GetHashStepUnmasked(GetHashFold(Seed64, hrun.str, Len(hrun.str) - 1),
                         hrun.str[Len(hrun.str)])[5] # 0

\* C17: the final mapping of the identification-code score gives 100
\* exactly when raw >= 970, and for raw in 0..969 the rounding of
\* raw / 969 * 99, which lies in 0..99, does not decrease with raw, and
\* maps 0 to 0 and 969 to 99.
C17_FinalMapping ==
  codeCalc.score # NoScore =>
    LET raw == codeCalc.randomValue
        sc == codeCalc.score
    IN  /\ sc = 100 <=> raw >= 970
        /\ raw <= 969 =>
             /\ sc \in 0..99
             /\ 2 * 969 * sc - 969 <= 2 * 99 * raw
             /\ 2 * 99 * raw < 2 * 969 * sc + 969
             /\ \A below \in 0..raw : calculateJrrpWithCode(below) <= sc
        /\ raw = 0 => sc = 0
        /\ raw = 969 => sc = 99

\* the largest raw value below the threshold has been mapped
C17_Witness ==
  /\ codeCalc.score # NoScore
  /\ codeCalc.randomValue = 969
  /\ codeCalc.score = 99


(***************************************************************************)
(* Binding identification codes.                                           *)
(***************************************************************************)
InitCodeOnly ==
  /\ InitCode /\ InitSynth /\ IdleScore /\ IdleFetch /\ IdleService
  /\ IdleCommand /\ IdleHash /\ IdleRange /\ IdleDisplay
  /\ IdleBut("")

SpecCode == InitCodeOnly /\ [][NextCode]_vars

\* a string of the form XXXX-XXXX-XXXX-XXXX, X an upper-case hex digit
WellFormed(s) ==
  /\ Len(s) = 19
  /\ \A i \in 1..19 : IF i \in {5, 10, 15} THEN s[i] = 45 ELSE s[i] \in HexDigit

\* C18: a bind whose code, trimmed and upper-cased, is not of the form
\* XXXX-XXXX-XXXX-XXXX fails and leaves the stored codes as they were; every
\* stored code that is not empty has that form, and so has every code the
\* score engine is called with
C18_MalformedCodeRejected ==
  /\ (linked.op = "bind" /\ ~WellFormed(ToUpperCase(Trim(linked.code))))
       => ~linked.ok /\ linked.after = linked.before
  /\ \A u \in Users : profiles.code[u] # <<>> => WellFormed(profiles.code[u])
  /\ engine # NoCode => WellFormed(engine)

\* a malformed code was refused to a user who has a code bound, and the
\* score engine has run on a bound code
C18_Witness ==
  /\ linked.op = "bind"
  /\ Trim(linked.code) # <<>>
  /\ ~WellFormed(ToUpperCase(Trim(linked.code)))
  /\ ~linked.ok
  /\ profiles.code[linked.uid] # <<>>
  /\ engine # NoCode

(***************************************************************************)
(* The range messages.                                                     *)
(***************************************************************************)
InitRangeOnly ==
  /\ InitRange /\ InitSynth /\ IdleScore /\ IdleFetch /\ IdleService
  /\ IdleCommand /\ IdleHash /\ IdleCode /\ IdleDisplay
  /\ IdleBut("")

SpecRangeMessages == InitRangeOnly /\ [][NextRangeMessages]_vars

\* the keys are 'min-max' ranges within 0..100 of which every score of
\* 0..100 is in exactly one
Partitions(range) ==
  /\ range # <<>>
  /\ \A i \in 1..Len(range) : ~InvalidRange(ParseRange(range[i]))
  /\ \A sc \in 0..100 : Cardinality({ i \in 1..Len(range) : InRange(sc, ParseRange(range[i])) }) = 1

\* C19: validateRangeMessages accepts a configuration exactly when its keys
\* partition 0..100 and throws otherwise, and a score looked up after the
\* validation is in exactly one range
C19_AcceptsExactlyPartitions ==
  /\ verdict # "unchecked" => (verdict = "accepted" <=> Partitions(ranges))
  /\ matched.score # NoScore => Cardinality(matched.hits) = 1

(***************************************************************************)
(* The display date of the special format.                                 *)
(***************************************************************************)
InitDisplayOnly ==
  /\ IdleDisplay /\ InitSynth /\ IdleScore /\ IdleFetch /\ IdleService
  /\ IdleCommand /\ IdleHash /\ IdleCode /\ IdleRange
  /\ IdleBut("")

SpecDisplay == InitDisplayOnly /\ [][NextDisplay]_vars

\* displayDate names the day: 'M-D', with or without leading zeros
NamesDay(displayDate, date) ==
  \/ displayDate = Decimal(date[1]) \o <<45>> \o Decimal(date[2])
  \/ displayDate = PadStart2(date[1]) \o <<45>> \o PadStart2(date[2])

\* C20: with the special display enabled the score is shown in the special
\* format exactly on the day displayDate names, and on every day when
\* displayDate is empty; with the special display disabled it is always
\* shown as the plain decimal number
C20_SpecialOnDisplayDate ==
  display.impl # "" =>
    IF display.type = "enabled"
      THEN (display.out = display.displayType)
             <=> (display.date = <<>> \/ NamesDay(display.date, display.day))
      ELSE display.out = "decimal"

(***************************************************************************)
(* The ranking of the day.                                                 *)
(***************************************************************************)
InitBoardOnly == InitBoard /\ IdleEarlier /\ IdleBut("board")

SpecBoard == InitBoardOnly /\ [][NextBoard]_vars

\* the entries recorded on the local day of the clock
RecordedToday == { i \in 1..Len(board) : (board[i].at + zone) \div 24 = (now + zone) \div 24 }

\* C21: the ranking holds exactly the users whose score was recorded on
\* the current day, each once and with that score, in non-increasing order
\* of score, and getUserRank is the 1-based position in it, -1 for a user
\* who is not in it
C21_RankingOfToday ==
  asked.fresh =>
    LET ranking == asked.ranking
    IN  /\ Len(ranking) = Cardinality(RecordedToday)
        /\ \A i \in RecordedToday :
             \E k \in 1..Len(ranking) :
               ranking[k].userId = board[i].userId /\ ranking[k].score = board[i].score
        /\ \A k \in 1..(Len(ranking) - 1) : ranking[k].score >= ranking[k + 1].score
        /\ \A u \in RankUsers :
             IF \E k \in 1..Len(ranking) : ranking[k].userId = u
               THEN asked.ranks[u] \in 1..Len(ranking) /\ ranking[asked.ranks[u]].userId = u
               ELSE asked.ranks[u] = 0 - 1

\* the ranking was asked for when an entry of the day before was still
\* kept, on a day whose UTC date differs from the local one, and two users
\* of today are ranked
C21_Witness ==
  /\ asked.fresh
  /\ Len(asked.ranking) = 2
  /\ asked.ranking[1].score > asked.ranking[2].score
  /\ Len(board) = 3
  /\ \E i \in 1..Len(board) : board[i].timestamp.date # (board[i].at + zone) \div 24

(***************************************************************************)
(* Determinism of the score.                                               *)
(***************************************************************************)
InitTrialOnly == InitTrial /\ IdleEarlier /\ IdleBut("trial")

SpecTrial == InitTrialOnly /\ [][NextTrial]_vars

InitThemeOnly == InitTheme /\ IdleEarlier /\ IdleBut("theme")

SpecTheme == InitThemeOnly /\ [][NextTheme]_vars

\* C23: the unlock message is shown to a user only the first time a score
\* of 100 is computed from the bound code, and the flag set at that moment
\* is never cleared afterwards
C23_UnlockShownOnce ==
  /\ said.unlock => said.uid \notin said.seenBefore
  /\ \A u \in unlockSeen : holder.flag[u]

(***************************************************************************)
(* The confirmation of a score of 0.                                       *)
(***************************************************************************)
InitZeroOnly == IdleZero /\ IdleEarlier /\ IdleBut("zero")

SpecZero == InitZeroOnly /\ [][NextZero]_vars

\* the answer y in either case, and in CodeStore also yes
Confirms(impl, response) ==
  \/ Len(response) = 1 /\ response[1] \in {89, 121}
  \/ /\ impl = "store"
     /\ Len(response) = 3 /\ response[1] \in {89, 121} /\ response[2] \in {69, 101}
     /\ response[3] \in {83, 115}

\* C24: when the score computed from the code is 0 the result is sent only
\* after the prompt and a confirming answer, and without a confirming
\* answer no result is sent and no score is recorded
C24_ZeroNeedsConfirmation ==
  (asking.impl # "" /\ asking.score = 0) =>
    /\ (\E i \in 1..Len(sent) : sent[i] = "result") =>
         /\ Len(sent) = 2 /\ sent[1] \in {"zero_prompt", "zeroWarning"} /\ sent[2] = "result"
         /\ Confirms(asking.impl, asking.reply)
    /\ ~Confirms(asking.impl, asking.reply) =>
         /\ \A i \in 1..Len(sent) : sent[i] # "result"
         /\ kept = NoScore

(***************************************************************************)
(* The factorization split.                                                *)
(***************************************************************************)
\* the divisors of n the split may pick
SplitDivisors(n) == { i \in 2..9 : i * i <= n /\ n % i = 0 }

\* the text the split is to give for n: the largest divisor times the
\* text of the quotient, or the text of the multiple of ten below n plus
\* the last digit of n
RECURSIVE FactorSplit(_)
FactorSplit(n) ==
  IF n <= 10 THEN << NumStr(n) >>
  ELSE IF SplitDivisors(n) # {}
    THEN LET i == CHOOSE d \in SplitDivisors(n) : \A e \in SplitDivisors(n) : e <= d
         IN  <<"(", NumStr(i), "*">> \o FactorSplit(n \div i) \o <<")">>
  ELSE <<"(">> \o FactorSplit(n - (n % 10)) \o <<"+", NumStr(n % 10), ")">>

\* the factorization alone on a fresh instance.  Its recursion is on ever
\* smaller numbers below 100, so it is run with room for the deepest chain
\* (46 = 2 * 23, 23 = 20 + 3, under the caller and the generator) and the
\* engine's RangeError is
\* out of its reach
NextSplit ==
  \/ /\ CanCall
     /\ \E target \in Targets, baseNumber \in Bases :
          Invoke("prime", target, baseNumber)
  \/ /\ CanCall
     /\ \E sc \in Targets, date \in Days, foolConfig \in FoolConfigs(Bases) :
          FormatScore(sc, date, foolConfig, "prime")
  \/ EnterWithin(MaxSplitDepth)
  \/ Return
  \/ Finish

SpecSplit == InitSynthOnly /\ [][NextSplit]_vars

\* C25: for a target in 11..99 and a base in 1..9 the factorization
\* returns the largest divisor in 2..min(9, floor(sqrt(target))) times the
\* expression of the quotient, or without such a divisor the expression of
\* the multiple of ten below the target plus its last digit; the text
\* evaluates to the target, and every recursive call of the split is on a
\* smaller number than its caller's
C25_FactorizationSplit ==
  /\ (Returned /\ call.fn = "prime" /\ call.target \in 11..99 /\ call.base \in 1..9)
       => /\ result = FactorSplit(call.target)
          /\ Evaluate(result).ok /\ Evaluate(result).v = call.target
  /\ (status = "running" /\ call.fn = "prime")
       => /\ Len(stack) <= MaxSplitDepth
          /\ \A i \in 2..Len(stack) :
               (stack[i].fn = "decompose" /\ stack[i - 1].fn = "decompose")
                 => stack[i].target < stack[i - 1].target

\* 46 = 2 * 23 and 23 = 20 + 3 with 20 = 4 * 5: both kinds of split, one
\* inside the other
C25_Witness ==
  /\ Returned /\ call.fn = "prime" /\ call.target = 46
  /\ result = <<"(", "2", "*", "(", "(", "4", "*", "5", ")", "+", "3", ")", ")">>

(***************************************************************************)
(* The message getMessage selects.                                         *)
(***************************************************************************)
InitMessageOnly == InitMessage /\ IdleEarlier /\ IdleBut("message")

SpecMessage == InitMessageOnly /\ [][NextMessage]_vars

\* the configured special messages for the day: their condition is the
\* day's date
ForDate(cfg, day) ==
  { m \in { cfg.specialMessages[i] : i \in 1..Len(cfg.specialMessages) } :
      m.condition = todayStr(day) }

\* the configured special messages for the score: their condition is the
\* number
ForScore(cfg, sc) ==
  { m \in { cfg.specialMessages[i] : i \in 1..Len(cfg.specialMessages) } :
      AllDigits(m.condition) /\ DigitsValue(m.condition, 0) = sc }

\* the configured range messages whose [min, max] contains the score
Containing(cfg, sc) ==
  { r \in { cfg.rangeMessages[i] : i \in 1..Len(cfg.rangeMessages) } :
      r.min <= sc * 10 /\ sc * 10 <= r.max }

InitClearOnly == InitClear /\ IdleEarlier /\ IdleBut("clear")

SpecClear == InitClearOnly /\ [][NextClear]_vars

\* C27: clearData without a userId and without a date deletes nothing and
\* returns 0; with a filter it removes exactly the records that match every
\* given field, leaves the others, and returns the number of records it
\* removed, 0 when the database operation fails
C27_ClearExactAndCounted ==
  clearing.pc = "done" =>
    /\ (clearing.userId = "" /\ clearing.date = "")
         => clearing.after = clearing.before /\ clearing.count = 0
    /\ clearing.after \in
         { clearing.before,
           clearing.before \ Selected(clearing.before, clearing.userId, clearing.date) }
    /\ clearing.count = Cardinality(clearing.before \ clearing.after)

(***************************************************************************)
(* Overlapping jrrp commands.                                              *)
(***************************************************************************)
InitOverlapOnly == InitOverlap /\ IdleEarlier /\ IdleBut("overlap")

SpecOverlap == InitOverlapOnly /\ [][NextOverlap]_vars

\* C28: two jrrp commands of the same user on the same day in remote mode,
\* interleaved at their awaits, display the same score, and at most one
\* request is sent to the random number service
C28_OneScoreOneRequest ==
  /\ overlap.requests <= 1
  /\ \A p, q \in Commands :
       (cmds[p].shown # NoScore /\ cmds[q].shown # NoScore) => cmds[p].shown = cmds[q].shown

=========================================================================
